---- MODULE Spec2Model ----
(***************************************************************************)
(* Model of the Lumen compiler front end (src/core/lmnast.py) and code     *)
(* generator (src/core/compiler.py): the symbol table, the scope handling  *)
(* of the recursive-descent parser, and the goto-to-dispatch-loop lowering *)
(* together with the execution of the generated dispatch loop.             *)
(***************************************************************************)
EXTENDS Integers, Sequences, FiniteSets, TLC

VARIABLES
    symbols,        \* SymbolTable.symbols: full_name -> Symbol
    functions,      \* SymbolTable.functions: name -> [params, body]
    scope_stack,    \* SymbolTable.scope_stack
    static_vars,    \* SymbolTable.static_vars: name -> Symbol
    global_vars,    \* SymbolTable.global_vars: name -> <<var_type, value>>
    frames,         \* active parse_tokens invocations, outermost first
    pstate,         \* position of the parse: "parsing", "raising", "done", "aborted"
    last,           \* the statement handled by the latest parser step and its outcome
    lmast,          \* the AST handed to PythonCodeGenerator.compile_to_python
    gen,            \* code generator result: labels, gotos, label_map, arms, status
    pc,             \* the generated program's counter variable
    run,            \* execution of the generated main_program
    output,         \* main(): AST received, output file, exit status
    expr,           \* a call of ExpressionParser.parse_expression: tokens, result
    scan            \* parse_tokens on a token list: the stack of loops, each with its index i

vars == <<symbols, functions, scope_stack, static_vars, global_vars,
          frames, pstate, last, lmast, gen, pc, run, output, expr, scan>>

stvars == <<symbols, functions, scope_stack, static_vars, global_vars>>
parsevars == <<frames, pstate, last>>
genvars == <<lmast, gen, pc, run, output, expr, scan>>

-----------------------------------------------------------------------------
(* Bounds *)

MaxProgram == 4     \* statements appended to ASTs in one parse run
MaxTop == 3         \* top-level statements of a program given to the generator
MaxDepth == 3       \* nesting depth of parse_tokens invocations

-----------------------------------------------------------------------------
(* Python values held by the parser: str, list, dict or None *)

PyStr(s) == [t |-> "str", v |-> s]
PyList(s) == [t |-> "list", v |-> s]
PyDict(s) == [t |-> "dict", v |-> s]
PyNone == [t |-> "none", v |-> ""]

startswith(s, p) == Len(s) >= Len(p) /\ SubSeq(s, 1, Len(p)) = p
endswith(s, p) == Len(s) >= Len(p) /\ SubSeq(s, Len(s) - Len(p) + 1, Len(s)) = p

Digits == {"0", "1", "2", "3", "4", "5", "6", "7", "8", "9"}

RECURSIVE AllDigits(_)
AllDigits(s) == IF Len(s) = 0 THEN TRUE
                ELSE Head(s) \in Digits /\ AllDigits(Tail(s))

Unsigned(s) == IF Len(s) > 0 /\ Head(s) \in {"+", "-"} THEN Tail(s) ELSE s

\* int(value) succeeds: an optional sign followed by at least one digit
IntParses(s) == Len(Unsigned(s)) > 0 /\ AllDigits(Unsigned(s))

\* float(value) succeeds: optional sign, digits with at most one point
RECURSIVE PointSplit(_, _)
PointSplit(s, i) ==
    IF i > Len(s) THEN FALSE
    ELSE IF SubSeq(s, i, i) = "."
         THEN /\ AllDigits(SubSeq(s, 1, i - 1))
              /\ AllDigits(SubSeq(s, i + 1, Len(s)))
              /\ Len(s) > 1
         ELSE PointSplit(s, i + 1)

FloatParses(s) == IntParses(s) \/ PointSplit(Unsigned(s), 1)

LowerChar(c) ==
    CASE c = "A" -> "a" [] c = "B" -> "b" [] c = "C" -> "c" [] c = "D" -> "d"
      [] c = "E" -> "e" [] c = "F" -> "f" [] c = "G" -> "g" [] c = "H" -> "h"
      [] c = "I" -> "i" [] c = "J" -> "j" [] c = "K" -> "k" [] c = "L" -> "l"
      [] c = "M" -> "m" [] c = "N" -> "n" [] c = "O" -> "o" [] c = "P" -> "p"
      [] c = "Q" -> "q" [] c = "R" -> "r" [] c = "S" -> "s" [] c = "T" -> "t"
      [] c = "U" -> "u" [] c = "V" -> "v" [] c = "W" -> "w" [] c = "X" -> "x"
      [] c = "Y" -> "y" [] c = "Z" -> "z" [] OTHER -> c

RECURSIVE lower(_)
lower(s) == IF Len(s) = 0 THEN "" ELSE LowerChar(Head(s)) \o lower(Tail(s))

Quoted(s) == \/ startswith(s, "\"") /\ endswith(s, "\"")
             \/ startswith(s, "'") /\ endswith(s, "'")

infer_type(value) ==
    IF value.t = "str"
    THEN IF Quoted(value.v) THEN "str"
         ELSE IF startswith(value.v, "[") /\ endswith(value.v, "]") THEN "ary"
         ELSE IF startswith(value.v, "{") /\ endswith(value.v, "}") THEN "dic"
         ELSE IF lower(value.v) \in {"true", "false"} THEN "bool"
         ELSE IF IntParses(value.v) THEN "int"
         ELSE IF FloatParses(value.v) THEN "float"
         ELSE "var"
    ELSE IF value.t = "list" THEN "ary"
    ELSE IF value.t = "dict" THEN "dic"
    ELSE "var"

\* a check that only compares the inferred type
check_type_compatibility_inferred_only(declared_type, value) ==
    declared_type = infer_type(value)

check_type_compatibility(declared_type, value) ==
    IF declared_type = "var" THEN TRUE
    ELSE IF declared_type = "ary"
         THEN value.t = "list" \/ (value.t = "str" /\ startswith(value.v, "["))
    ELSE IF declared_type = "dic"
         THEN value.t = "dict" \/ (value.t = "str" /\ startswith(value.v, "{"))
    ELSE declared_type = infer_type(value)

-----------------------------------------------------------------------------
(* SymbolTable *)

Symbol(name, var_type, value, is_static, scope) ==
    [name |-> name, var_type |-> var_type, value |-> value,
     is_static |-> is_static, scope |-> scope]

EmptyMap == [k \in {} |-> 0]

NewSymbolTable ==
    [symbols |-> EmptyMap, functions |-> EmptyMap,
     scope_stack |-> <<"global">>, static_vars |-> EmptyMap,
     global_vars |-> EmptyMap]

ST == [symbols |-> symbols, functions |-> functions,
       scope_stack |-> scope_stack, static_vars |-> static_vars,
       global_vars |-> global_vars]

Put(map, key, val) ==
    [k \in DOMAIN map \cup {key} |-> IF k = key THEN val ELSE map[k]]

Ok(st) == [st |-> st, err |-> ""]
Raise(st, msg) == [st |-> st, err |-> msg]

ErrStaticDeclared == "Static variable already declared"
ErrDeclared == "Variable already declared in current scope"
ErrReassignStatic == "Cannot reassign static variable"
ErrUndefined == "Undefined variable"
ErrTypeMismatch == "Type mismatch"
ErrFunctionDeclared == "Function already declared"

current_scope(st) == st.scope_stack[Len(st.scope_stack)]

FullName(scope, name) == IF scope # "global" THEN scope \o "." \o name ELSE name

enter_scope(st, scope_name) ==
    [st EXCEPT !.scope_stack = Append(@, scope_name)]

exit_scope(st) ==
    IF Len(st.scope_stack) > 1
    THEN LET scope == st.scope_stack[Len(st.scope_stack)]
             keep == {k \in DOMAIN st.symbols : st.symbols[k].scope # scope}
         IN [st EXCEPT !.scope_stack = SubSeq(@, 1, Len(@) - 1),
                       !.symbols = [k \in keep |-> st.symbols[k]]]
    ELSE st

\* a declaration that rebinds an existing static symbol
declare_variable_rebinding(st, name, var_type, value, is_static) ==
    LET is_global == name \in DOMAIN st.global_vars
        scope == IF is_global THEN "global" ELSE current_scope(st)
        full_name == IF is_global THEN name ELSE FullName(scope, name)
    IN IF is_static
       THEN Ok([st EXCEPT !.static_vars =
                   Put(@, name, Symbol(name, var_type, value, TRUE, "static"))])
       ELSE IF full_name \in DOMAIN st.symbols
            THEN Raise(st, ErrDeclared)
            ELSE Ok([st EXCEPT !.symbols =
                        Put(@, full_name, Symbol(name, var_type, value, FALSE, scope))])

declare_variable(st, name, var_type, value, is_static) ==
    LET is_global == name \in DOMAIN st.global_vars
        scope == IF is_global THEN "global" ELSE current_scope(st)
        full_name == IF is_global THEN name ELSE FullName(scope, name)
    IN IF is_static
       THEN IF name \in DOMAIN st.static_vars
            THEN Raise(st, ErrStaticDeclared)
            ELSE Ok([st EXCEPT !.static_vars =
                        Put(@, name, Symbol(name, var_type, value, TRUE, "static"))])
       ELSE IF full_name \in DOMAIN st.symbols
            THEN Raise(st, ErrDeclared)
            ELSE Ok([st EXCEPT !.symbols =
                        Put(@, full_name, Symbol(name, var_type, value, FALSE, scope))])

InSeq(x, s) == \E i \in 1..Len(s) : s[i] = x

get_function_parameters(st, function_name) ==
    IF function_name \in DOMAIN st.functions
    THEN st.functions[function_name].params
    ELSE <<>>

TypeChecked(st, symbol, value) ==
    IF check_type_compatibility(symbol.var_type, value)
    THEN Ok(st)
    ELSE Raise(st, ErrTypeMismatch)

\* an assignment that does not look at the static symbols
assign_variable_no_static_check(st, name, value) ==
    LET scope == current_scope(st)
        full_name == FullName(scope, name)
    IN IF full_name \in DOMAIN st.symbols
       THEN TypeChecked(st, st.symbols[full_name], value)
       ELSE IF name \in DOMAIN st.symbols
            THEN TypeChecked(st, st.symbols[name], value)
       ELSE Raise(st, ErrUndefined)

assign_variable(st, name, value) ==
    LET scope == current_scope(st)
        full_name == FullName(scope, name)
        is_parameter == scope # "global"
                        /\ InSeq(name, get_function_parameters(st, scope))
    IN IF name \in DOMAIN st.static_vars
       THEN Raise(st, ErrReassignStatic)
       ELSE LET r1 == IF is_parameter /\ full_name \notin DOMAIN st.symbols
                      THEN declare_variable(st, name, "var", value, FALSE)
                      ELSE Ok(st)
                s1 == r1.st
            IN IF r1.err # "" THEN r1
               ELSE IF full_name \in DOMAIN s1.symbols
                    THEN TypeChecked(s1, s1.symbols[full_name], value)
               ELSE IF name \in DOMAIN s1.symbols
                    THEN TypeChecked(s1, s1.symbols[name], value)
               ELSE IF is_parameter
                    THEN declare_variable(s1, name, "var", value, FALSE)
               ELSE Raise(s1, ErrUndefined)

declare_function(st, name, params, body_ast) ==
    IF name \in DOMAIN st.functions
    THEN Raise(st, ErrFunctionDeclared)
    ELSE Ok([st EXCEPT !.functions =
                Put(@, name, [params |-> params, body |-> body_ast])])

-----------------------------------------------------------------------------
(* AST statements: the tuples parse_tokens appends, as records *)

Stmt(type, name, var_type, value, is_static, params, body) ==
    [type |-> type, name |-> name, var_type |-> var_type, value |-> value,
     is_static |-> is_static, params |-> params, body |-> body]

DeclareStmt(var_type, name, value, is_static) ==
    Stmt("declare", name, var_type, value, is_static, <<>>, <<>>)
GlobalStmt(var_type, name, value) ==
    Stmt("global", name, var_type, value, FALSE, <<>>, <<>>)
AssignStmt(name, value) == Stmt("assign", name, "", value, FALSE, <<>>, <<>>)
IncStmt(name) == Stmt("inc", name, "", PyNone, FALSE, <<>>, <<>>)
DecStmt(name) == Stmt("dec", name, "", PyNone, FALSE, <<>>, <<>>)
ReturnStmt(value) == Stmt("return", "", "", value, FALSE, <<>>, <<>>)
LabelStmt(name) == Stmt("label", name, "", PyNone, FALSE, <<>>, <<>>)
GotoStmt(name) == Stmt("goto", name, "", PyNone, FALSE, <<>>, <<>>)
BlockStmt(t, condition, body_ast) ==
    Stmt(t, "", "", PyStr(condition), FALSE, <<>>, body_ast)
FunStmt(name, params, body_ast) ==
    Stmt("fun", name, "", PyNone, FALSE, params, body_ast)

RECURSIVE AstSize(_)
AstSize(ast) ==
    IF Len(ast) = 0 THEN 0
    ELSE 1 + AstSize(Head(ast).body) + AstSize(Tail(ast))

-----------------------------------------------------------------------------
(* parse_tokens: one frame per active invocation *)

Frame(kind, name, params, scope, entry_stack) ==
    [kind |-> kind, name |-> name, params |-> params, scope |-> scope,
     entry_stack |-> entry_stack, declared |-> {}, ast |-> <<>>]

TopFrame == Frame("top", "", <<>>, "global", <<>>)

Top == frames[Len(frames)]

RECURSIVE FramesSize(_)
FramesSize(fs) ==
    IF Len(fs) = 0 THEN 0 ELSE 1 + AstSize(Head(fs).ast) + FramesSize(Tail(fs))

\* statements appended so far in this run, open blocks included
ProgramSize == FramesSize(frames) - 1

Outcome(op, name, var_type, value, is_static, err) ==
    [op |-> op, name |-> name, var_type |-> var_type, value |-> value,
     is_static |-> is_static, err |-> err]

NoOutcome == Outcome("", "", "", PyNone, FALSE, "")

SetSTInit ==
    /\ symbols = NewSymbolTable.symbols
    /\ functions = NewSymbolTable.functions
    /\ scope_stack = NewSymbolTable.scope_stack
    /\ static_vars = NewSymbolTable.static_vars
    /\ global_vars = NewSymbolTable.global_vars

SetST(st) ==
    /\ symbols' = st.symbols
    /\ functions' = st.functions
    /\ scope_stack' = st.scope_stack
    /\ static_vars' = st.static_vars
    /\ global_vars' = st.global_vars

AppendTop(fs, stmt) == [fs EXCEPT ![Len(fs)].ast = Append(@, stmt)]

\* bookkeeping: the frame whose statement created a symbol owns it; a symbol
\* of scope 'global' belongs to the outermost frame
Own(fs, st) ==
    LET new == DOMAIN st.symbols \ DOMAIN symbols
    IN [i \in 1..Len(fs) |->
          [fs[i] EXCEPT !.declared = @ \cup
              {k \in new : IF st.symbols[k].scope = "global"
                           THEN i = 1 ELSE i = Len(fs)}]]

\* the statement is appended when the symbol table accepted it, else the
\* exception leaves parse_tokens
Appended(r, stmt, outcome) ==
    /\ SetST(r.st)
    /\ last' = outcome
    /\ IF r.err = ""
       THEN frames' = Own(AppendTop(frames, stmt), r.st) /\ pstate' = "parsing"
       ELSE frames' = Own(frames, r.st) /\ pstate' = "raising"

Conclude(r, stmt, outcome) == Appended(r, stmt, outcome) /\ UNCHANGED genvars

CanParse == pstate = "parsing" /\ ProgramSize < MaxProgram

ParseDeclare(var_type, name, value, is_static) ==
    /\ CanParse
    /\ Conclude(declare_variable(ST, name, var_type, value, is_static),
                DeclareStmt(var_type, name, value, is_static),
                Outcome("declare", name, var_type, value, is_static,
                        declare_variable(ST, name, var_type, value, is_static).err))

ParseGlobal(var_type, name, value) ==
    /\ CanParse
    /\ LET st1 == [ST EXCEPT !.global_vars = Put(@, name, <<var_type, value>>)]
           r == declare_variable(st1, name, var_type, value, FALSE)
       IN Conclude(r, GlobalStmt(var_type, name, value),
                   Outcome("global", name, var_type, value, FALSE, r.err))

ParseAssign(name, value) ==
    /\ CanParse
    /\ LET r == assign_variable(ST, name, value)
       IN Conclude(r, AssignStmt(name, value),
                   Outcome("assign", name, "", value, FALSE, r.err))

ParseIncDec(name) ==
    /\ CanParse
    /\ Conclude(Ok(ST), IncStmt(name), Outcome("inc", name, "", PyNone, FALSE, ""))

ScopeName(t, n) == t \o "_" \o ToString(n)

EnterBlock(t) ==
    /\ CanParse
    /\ Len(frames) < MaxDepth
    /\ LET scope_name == ScopeName(t, Len(Top.ast))
       IN /\ SetST(enter_scope(ST, scope_name))
          /\ frames' = Append(frames, Frame(t, "", <<>>, scope_name, scope_stack))
          /\ last' = Outcome("enter", scope_name, "", PyNone, FALSE, "")
    /\ pstate' = "parsing"
    /\ UNCHANGED genvars

Pop(fs) == SubSeq(fs, 1, Len(fs) - 1)

\* the body is parsed, the finally clause pops the scope, and the block is
\* appended when the closing brace is followed by a semicolon
ExitBlock(semicolon) ==
    /\ pstate = "parsing"
    /\ Top.kind \in {"if", "while"}
    /\ SetST(exit_scope(ST))
    /\ last' = Outcome("exit", Top.scope, "", PyNone, FALSE,
                       IF semicolon THEN "" ELSE "Expected ';' after block")
    /\ IF semicolon
       THEN /\ frames' = AppendTop(Pop(frames), BlockStmt(Top.kind, "c", Top.ast))
            /\ pstate' = "parsing"
       ELSE /\ frames' = Pop(frames)
            /\ pstate' = "raising"
    /\ UNCHANGED genvars

RECURSIVE declare_parameters(_, _)
declare_parameters(r, params) ==
    IF r.err # "" \/ Len(params) = 0 THEN r
    ELSE declare_parameters(
            declare_variable(r.st, Head(params), "var", PyNone, FALSE),
            Tail(params))

EnterFun(name, params) ==
    /\ CanParse
    /\ Len(frames) < MaxDepth
    /\ LET r == declare_parameters(Ok(enter_scope(ST, name)), params)
       IN /\ SetST(r.st)
          /\ last' = Outcome("fun", name, "", PyNone, FALSE, r.err)
          /\ pstate' = IF r.err = "" THEN "parsing" ELSE "raising"
          /\ frames' = Own(Append(frames,
                               Frame("fun", name, params, name, scope_stack)), r.st)
    /\ UNCHANGED genvars

ExitFun(semicolon) ==
    /\ pstate = "parsing"
    /\ Top.kind = "fun"
    /\ LET r == declare_function(ST, Top.name, Top.params, Top.ast)
           err == IF r.err # "" THEN r.err
                  ELSE IF semicolon THEN ""
                  ELSE "Expected ';' after function definition"
       IN /\ SetST(exit_scope(r.st))
          /\ last' = Outcome("exitfun", Top.name, "", PyNone, FALSE, err)
          /\ IF err = ""
             THEN /\ frames' = AppendTop(Pop(frames),
                                         FunStmt(Top.name, Top.params, Top.ast))
                  /\ pstate' = "parsing"
             ELSE /\ frames' = Pop(frames)
                  /\ pstate' = "raising"
    /\ UNCHANGED genvars

\* a block whose scope is popped only when its body returns
no_finally(st) == st

\* the finally clause of the if/while and fun branches on the exception path
finally_exit_scope(st) == exit_scope(st)

Unwind ==
    /\ pstate = "raising"
    /\ Len(frames) > 1
    /\ SetST(finally_exit_scope(ST))
    /\ frames' = Pop(frames)
    /\ last' = Outcome("unwind", Top.scope, "", PyNone, FALSE, last.err)
    /\ pstate' = "raising"
    /\ UNCHANGED genvars

Abort ==
    /\ pstate = "raising"
    /\ Len(frames) = 1
    /\ pstate' = "aborted"
    /\ last' = Outcome("abort", "", "", PyNone, FALSE, last.err)
    /\ UNCHANGED <<stvars, frames, genvars>>

Finish ==
    /\ pstate = "parsing"
    /\ Len(frames) = 1
    /\ pstate' = "done"
    /\ last' = Outcome("finish", "", "", PyNone, FALSE, "")
    /\ UNCHANGED <<stvars, frames, genvars>>

\* a run that keeps the SymbolTable of the run before
parse_lumen_file_same_table ==
    /\ pstate \in {"done", "aborted"}
    /\ frames' = <<TopFrame>>
    /\ pstate' = "parsing"
    /\ last' = Outcome("start", "", "", PyNone, FALSE, "")
    /\ UNCHANGED <<stvars, genvars>>

\* parse_lumen_file: every run starts from a new SymbolTable
parse_lumen_file ==
    /\ pstate \in {"done", "aborted"}
    /\ SetST(NewSymbolTable)
    /\ frames' = <<TopFrame>>
    /\ pstate' = "parsing"
    /\ last' = Outcome("start", "", "", PyNone, FALSE, "")
    /\ UNCHANGED genvars

-----------------------------------------------------------------------------
(* Inputs of the parser specifications *)

Names == {"x", "a"}
FunNames == {"f"}
ParamLists == {<<"a">>, <<>>}
DeclTypes == {"int", "str"}
ValueOf(var_type) == IF var_type = "int" THEN PyStr("1") ELSE PyStr("\"s\"")
AssignValues == {PyStr("2"), PyStr("\"t\"")}

NoGen == [status |-> "idle", mode |-> "", labels |-> EmptyMap, gotos |-> <<>>,
          label_map |-> EmptyMap, funs |-> <<>>, arms |-> <<>>, code |-> <<>>,
          error |-> ""]
NoStep == [before |-> 0, executed |-> <<>>, kind |-> "none"]
NoRun == [status |-> "idle", step |-> NoStep]
\* main() before start() has returned: nothing written, not exited
NoOutput == [parsed |-> FALSE, file |-> "none", exit |-> ""]
\* parse_expression not called
NoTree == [op |-> "", args |-> <<>>]
NoExpr == [called |-> FALSE, tree |-> NoTree, tokens |-> <<>>, result |-> PyNone]
\* parse_tokens has not been called on a token list
NoScan == [loops |-> <<>>, walk |-> "idle", work |-> <<>>, visits |-> <<>>]

Init ==
    /\ SetSTInit
    /\ frames = <<TopFrame>>
    /\ pstate = "parsing"
    /\ last = NoOutcome
    /\ lmast = <<>>
    /\ gen = NoGen
    /\ pc = 0
    /\ run = NoRun
    /\ output = NoOutput
    /\ expr = NoExpr
    /\ scan = NoScan

Next ==
    \/ \E n \in Names : ParseDeclare("int", n, ValueOf("int"), FALSE)
    \/ \E t \in DeclTypes : ParseDeclare(t, "x", ValueOf(t), TRUE)
    \/ ParseGlobal("int", "x", PyStr("1"))
    \/ \E n \in Names, v \in AssignValues : ParseAssign(n, v)
    \/ ParseIncDec("x")
    \/ \E t \in {"if", "while"} : EnterBlock(t)
    \/ \E semi \in BOOLEAN : ExitBlock(semi)
    \/ \E f \in FunNames, ps \in ParamLists : EnterFun(f, ps)
    \/ \E semi \in BOOLEAN : ExitFun(semi)
    \/ Unwind
    \/ Abort
    \/ Finish
    \/ parse_lumen_file

Spec == Init /\ [][Next]_vars

-----------------------------------------------------------------------------
(* The type-check specification: one variable, every declared type, values *)
(* of every shape infer_type distinguishes                                 *)

AllTypes == {"int", "str", "bool", "var", "ary", "dic"}

Values ==
    {PyStr("2"), PyStr("-7"), PyStr("1.5"), PyStr("\"t\""), PyStr("'t'"),
     PyStr("true"), PyStr("False"), PyStr("y"), PyStr("(x + 1)"),
     PyStr("[1]"), PyStr("[1] + y"), PyStr("{k}"), PyStr("{k} + y"),
     PyList("1,2"), PyDict("k:1"), PyNone}

DeclValue(var_type) ==
    CASE var_type = "int" -> PyStr("1")
      [] var_type = "str" -> PyStr("\"s\"")
      [] var_type = "bool" -> PyStr("true")
      [] var_type = "ary" -> PyList("1")
      [] var_type = "dic" -> PyDict("k:1")
      [] OTHER -> PyStr("z")

NextTypes ==
    \/ \E t \in AllTypes : ParseDeclare(t, "x", DeclValue(t), FALSE)
    \/ \E v \in Values : ParseAssign("x", v)
    \/ EnterBlock("if")
    \/ ExitBlock(TRUE)
    \/ Unwind
    \/ Abort
    \/ Finish
    \/ parse_lumen_file

SpecTypes == Init /\ [][NextTypes]_vars

-----------------------------------------------------------------------------
(* Properties of the symbol table and of the parser's scope handling *)

Range(seq) == {seq[i] : i \in 1..Len(seq)}

\* the symbol assign_variable checks the value against: the one of the
\* current scope, else the one of the global scope
HasTarget(name) ==
    \/ FullName(scope_stack[Len(scope_stack)], name) \in DOMAIN symbols
    \/ name \in DOMAIN symbols

Target(name) ==
    IF FullName(scope_stack[Len(scope_stack)], name) \in DOMAIN symbols
    THEN symbols[FullName(scope_stack[Len(scope_stack)], name)]
    ELSE symbols[name]

\* compatibility as the specification words it
Compatible(T, w) ==
    \/ T = "var"
    \/ infer_type(w) = T
    \/ T = "ary" /\ (w.t = "list" \/ (w.t = "str" /\ startswith(w.v, "[")))
    \/ T = "dic" /\ (w.t = "dict" \/ (w.t = "str" /\ startswith(w.v, "{")))

\* C1: an assignment to a declared non-static variable of type T succeeds
\* when the value is compatible with T and otherwise fails with a type
\* mismatch; a variable of type var accepts every value.
C1_TypeCheck ==
    (last.op = "assign" /\ HasTarget(last.name)
        /\ last.name \notin DOMAIN static_vars)
    => /\ last.err = "" <=> Compatible(Target(last.name).var_type, last.value)
       /\ last.err # "" => last.err = ErrTypeMismatch
       /\ Target(last.name).var_type = "var" => last.err = ""

C1_Witness ==
    /\ last.op = "assign"
    /\ HasTarget(last.name)
    /\ Target(last.name).var_type = "int"
    /\ last.value = PyStr("\"t\"")
    /\ last.err = ErrTypeMismatch

\* C2: declaring a name static a second time fails, in whatever scope, and
\* leaves the existing static symbol as it was.
C2_StaticRedeclare ==
    [][(last'.op = "declare" /\ last'.is_static
            /\ last'.name \in DOMAIN static_vars)
       => /\ last'.err = ErrStaticDeclared
          /\ pstate' = "raising"
          /\ static_vars' = static_vars]_vars

C2_Witness ==
    /\ last.op = "declare"
    /\ last.is_static
    /\ last.err = ErrStaticDeclared
    /\ Len(scope_stack) > 1
    /\ static_vars[last.name].var_type # last.var_type

\* C3: assigning to a static name fails from every scope and for every
\* value, and changes nothing in the symbol table.
C3_StaticAssign ==
    [][(last'.op = "assign" /\ last'.name \in DOMAIN static_vars)
       => /\ last'.err = ErrReassignStatic
          /\ pstate' = "raising"
          /\ UNCHANGED stvars]_vars

C3_Witness ==
    /\ last.op = "assign"
    /\ last.err = ErrReassignStatic
    /\ Len(scope_stack) = 2
    /\ scope_stack[2] = "f"
    /\ HasTarget(last.name)

\* C4: a declaration fails whenever a static symbol of that name exists,
\* be the new declaration static or not, and whenever a non-static symbol
\* of that name exists in the current scope.
C4_DeclareRejected ==
    [][(last'.op = "declare"
            /\ \/ last'.name \in DOMAIN static_vars
               \/ FullName(scope_stack[Len(scope_stack)], last'.name)
                     \in DOMAIN symbols)
       => last'.err # ""]_vars

\* the parameters of the function whose body is being parsed
RECURSIVE EnclosingParams(_)
EnclosingParams(fs) ==
    IF Len(fs) = 0 THEN <<>>
    ELSE IF fs[Len(fs)].kind = "fun" THEN fs[Len(fs)].params
    ELSE EnclosingParams(SubSeq(fs, 1, Len(fs) - 1))

Resolvable(name) ==
    \/ FullName(scope_stack[Len(scope_stack)], name) \in DOMAIN symbols
    \/ InSeq(name, EnclosingParams(frames))
    \/ name \in DOMAIN symbols

\* C5: an assignment to a non-static name fails as undefined exactly when
\* neither the current scope, nor the parameters of the function being
\* parsed, nor the global scope holds the name.
C5_AssignResolution ==
    [][(last'.op = "assign" /\ last'.name \notin DOMAIN static_vars)
       => (last'.err = ErrUndefined <=> ~Resolvable(last'.name))]_vars

PopStep == last'.op \in {"exit", "exitfun", "unwind"}

\* C6: leaving a scope deletes the symbols of the frame being popped and no
\* symbol of a frame that stays on the stack, and no static symbol.
C6_ExitScopeExact ==
    [][PopStep
       => /\ \A k \in Top.declared : k \notin DOMAIN symbols'
          /\ \A i \in 1..(Len(frames) - 1) :
                \A k \in frames[i].declared \cap DOMAIN symbols :
                    k \in DOMAIN symbols'
          /\ static_vars' = static_vars]_vars

\* C7: when the parse of an if, while or fun body ends, by returning or by
\* raising, the scope stack is what it was before the block was entered and
\* no symbol the block declared is left; the parse as a whole ends with the
\* global scope alone.
C7_ScopeBalanced ==
    [][/\ PopStep
          => /\ scope_stack' = Top.entry_stack
             /\ \A k \in Top.declared : k \notin DOMAIN symbols'
       /\ pstate' \in {"done", "aborted"} => scope_stack' = <<"global">>
       /\ pstate' \in {"parsing", "raising"} =>
             /\ Len(scope_stack') = Len(frames')
             /\ \A k \in DOMAIN symbols' :
                   symbols'[k].scope \in Range(scope_stack')]_vars

C7_Witness ==
    /\ last.op = "unwind"
    /\ last.err = ErrUndefined
    /\ Len(frames) = 2
    /\ scope_stack = <<"global", frames[2].scope>>

-----------------------------------------------------------------------------
(* PythonCodeGenerator (src/core/compiler.py) *)

CallStmt(name, args) == Stmt("call", name, "", PyNone, FALSE, args, <<>>)

\* ("include", lib_name) and ("import", package_name)
IncludeStmt(lib_name) == Stmt("include", lib_name, "", PyNone, FALSE, <<>>, <<>>)
ImportStmt(package_name) == Stmt("import", package_name, "", PyNone, FALSE, <<>>, <<>>)
\* ("lib_call", lib_name, func_name, args) and ("lib_access", lib_name, member_name)
LibCallStmt(lib_name, func_name, args) ==
    Stmt("lib_call", lib_name, "", PyStr(func_name), FALSE, args, <<>>)
LibAccessStmt(lib_name, member_name) ==
    Stmt("lib_access", lib_name, "", PyStr(member_name), FALSE, <<>>, <<>>)

\* one line of target text at an indentation level
Line(indent, text) == [indent |-> indent, text |-> text]

NewGenerator ==
    [static_vars |-> EmptyMap, global_vars |-> EmptyMap, functions |-> EmptyMap,
     libraries |-> EmptyMap, indent_level |-> 0, labels |-> EmptyMap,
     gotos |-> <<>>]

Compiled(code, g) == [code |-> code, g |-> g, err |-> ""]
GenRaise(g, msg) == [code |-> <<>>, g |-> g, err |-> msg]

ErrDuplicateLabel == "Duplicate label"
ErrUndefinedLabel == "Undefined label"
ErrGotoFromFunction == "Cannot goto label from inside function"
ErrFunctionHasGoto == "Function contains goto statements"
ErrUndefinedFunction == "Undefined function"
ErrArgumentCount == "Function expects a different number of arguments"
ErrUnknownStatement == "Unknown statement type"
ErrLibraryNotLoaded(lib_name) == "Library '" \o lib_name \o "' not loaded"
ErrNoIsExpression ==
    "AttributeError: 'PythonCodeGenerator' object has no attribute 'is_expression'"

Letters == {"a", "b", "c", "d", "e", "f", "g", "h", "i", "j", "k", "l", "m",
            "n", "o", "p", "q", "r", "s", "t", "u", "v", "w", "x", "y", "z",
            "A", "B", "C", "D", "E", "F", "G", "H", "I", "J", "K", "L", "M",
            "N", "O", "P", "Q", "R", "S", "T", "U", "V", "W", "X", "Y", "Z", "_"}

HasChar(s, c) == \E i \in 1..Len(s) : SubSeq(s, i, i) = c

\* str.isidentifier
isidentifier(s) ==
    /\ Len(s) > 0
    /\ Head(s) \in Letters
    /\ \A i \in 1..Len(s) : SubSeq(s, i, i) \in Letters \cup Digits

\* value.replace('.','').replace('-','').isdigit()
RECURSIVE Without(_, _)
Without(s, chars) ==
    IF Len(s) = 0 THEN ""
    ELSE IF Head(s) \in chars THEN Without(Tail(s), chars)
    ELSE SubSeq(s, 1, 1) \o Without(Tail(s), chars)

isdigit(s) == Len(s) > 0 /\ AllDigits(s)

\* format_value: the parser stores scalars as str; the elements of a list or
\* dict value are kept as the text between its brackets
format_value(value, var_type) ==
    IF value.t = "none" THEN "None"
    ELSE IF value.t = "str" /\ var_type = "bool" /\ lower(value.v) \in {"true", "false"}
    THEN IF lower(value.v) = "true" THEN "True" ELSE "False"
    ELSE IF value.t = "str" /\ HasChar(value.v, "[") /\ HasChar(value.v, "]")
    THEN value.v
    ELSE IF value.t = "list" THEN "[" \o value.v \o "]"
    ELSE IF value.t = "dict" THEN "{" \o value.v \o "}"
    ELSE IF Quoted(value.v) \/ FloatParses(value.v) \/ isidentifier(value.v)
    THEN value.v
    ELSE "\"" \o value.v \o "\""

\* compile_statements keeps an expression as it is and formats a literal
ValueText(value, var_type) ==
    IF /\ value.t = "str"
       /\ ~(startswith(value.v, "\"") \/ startswith(value.v, "'"))
       /\ ~isdigit(Without(value.v, {".", "-"}))
       /\ lower(value.v) \notin {"true", "false"}
    THEN value.v
    ELSE format_value(value, var_type)

RECURSIVE collect_top_level(_, _, _)
collect_top_level(statements, scope_name, g) ==
    IF Len(statements) = 0 \/ g.err # "" THEN g
    ELSE LET stmt == Head(statements)
             g1 == IF stmt.type = "label"
                   THEN IF stmt.name \in DOMAIN g.labels
                        THEN [g EXCEPT !.err = ErrDuplicateLabel]
                        ELSE [g EXCEPT !.labels = Put(@, stmt.name, scope_name)]
                   ELSE IF stmt.type = "goto"
                   THEN [g EXCEPT !.gotos = Append(@, <<stmt.name, scope_name>>)]
                   ELSE g
         IN collect_top_level(Tail(statements), scope_name, g1)

RECURSIVE collect_recursive(_, _, _)
collect_recursive(statements, scope_name, g) ==
    IF Len(statements) = 0 \/ g.err # "" THEN g
    ELSE LET stmt == Head(statements)
             g1 == IF stmt.type = "label"
                   THEN IF stmt.name \in DOMAIN g.labels
                        THEN [g EXCEPT !.err = ErrDuplicateLabel]
                        ELSE [g EXCEPT !.labels = Put(@, stmt.name, scope_name)]
                   ELSE IF stmt.type = "goto"
                   THEN [g EXCEPT !.gotos = Append(@, <<stmt.name, scope_name>>)]
                   ELSE IF stmt.type = "fun"
                   THEN collect_recursive(stmt.body, "function_" \o stmt.name, g)
                   ELSE IF stmt.type \in {"if", "while"}
                   THEN collect_recursive(stmt.body,
                            ScopeName(stmt.type, Cardinality(DOMAIN g.labels)), g)
                   ELSE g
         IN collect_recursive(Tail(statements), scope_name, g1)

validate_gotos_unchecked(gotos, labels) == ""

RECURSIVE validate_gotos(_, _)
validate_gotos(gotos, labels) ==
    IF Len(gotos) = 0 THEN ""
    ELSE LET goto_label == Head(gotos)[1]
             goto_scope == Head(gotos)[2]
         IN IF goto_label \notin DOMAIN labels THEN ErrUndefinedLabel
            ELSE IF labels[goto_label] # goto_scope
                    /\ startswith(goto_scope, "function_")
                 THEN ErrGotoFromFunction
            ELSE validate_gotos(Tail(gotos), labels)

Validated(c) ==
    IF c.err # "" THEN c ELSE [c EXCEPT !.err = validate_gotos(c.gotos, c.labels)]

\* returns the collected labels and gotos, and the error raised if any
collect_labels_and_gotos(ast) ==
    Validated(collect_recursive(ast, "global",
                  [labels |-> EmptyMap, gotos |-> <<>>, err |-> ""]))

RECURSIVE contains_goto(_)
contains_goto(statements) ==
    IF Len(statements) = 0 THEN FALSE
    ELSE LET stmt == Head(statements)
         IN \/ stmt.type \in {"goto", "label"}
            \/ stmt.type \in {"if", "while"} /\ contains_goto(stmt.body)
            \/ contains_goto(Tail(statements))

\* a name of names occurs as a string item of the AST subtree
RECURSIVE names_used(_, _)
names_used(ast, names) ==
    IF Len(ast) = 0 THEN {}
    ELSE LET stmt == Head(ast)
         IN ({stmt.name, stmt.var_type, stmt.value.v} \cap names)
            \cup (Range(stmt.params) \cap names)
            \cup names_used(stmt.body, names)
            \cup names_used(Tail(ast), names)

find_global_vars_used(g, ast) == names_used(ast, DOMAIN g.global_vars)

RECURSIVE JoinSet(_)
JoinSet(S) ==
    IF S = {} THEN ""
    ELSE LET n == CHOOSE x \in S : TRUE
         IN IF S = {n} THEN n ELSE n \o ", " \o JoinSet(S \ {n})

RECURSIVE Join(_)
Join(seq) ==
    IF Len(seq) = 0 THEN ""
    ELSE IF Len(seq) = 1 THEN seq[1]
    ELSE seq[1] \o ", " \o Join(Tail(seq))

Indented(g) == [g EXCEPT !.indent_level = @ + 1]
Dedented(g) == [g EXCEPT !.indent_level = @ - 1]

\* header line, then one level deeper the leading lines and the body, with
\* 'pass' in place of an empty body
Block(header, leading, body, g) ==
    IF body.err # "" THEN GenRaise(g, body.err)
    ELSE Compiled(<<Line(g.indent_level, header)>> \o leading
                    \o (IF Len(body.code) = 0
                        THEN <<Line(g.indent_level + 1, "pass")>>
                        ELSE body.code),
                  Dedented(body.g))

CallChecked(stmt, g) ==
    IF stmt.name \notin DOMAIN g.functions
    THEN GenRaise(g, ErrUndefinedFunction)
    ELSE IF Len(g.functions[stmt.name]) # Len(stmt.params)
    THEN GenRaise(g, ErrArgumentCount)
    ELSE Compiled(<<Line(g.indent_level,
                         stmt.name \o "(" \o Join(stmt.params) \o ")")>>, g)

FunHeader(stmt) == "def " \o stmt.name \o "(" \o Join(stmt.params) \o "):"

GlobalLine(g, body) ==
    IF find_global_vars_used(g, body) = {} THEN <<>>
    ELSE <<Line(g.indent_level + 1,
                "global " \o JoinSet(find_global_vars_used(g, body)))>>

\* the code of one statement followed by the code of the rest
Merge(r, rest) ==
    IF rest.err # "" THEN rest ELSE Compiled(r.code \o rest.code, rest.g)

Registered(stmt, g) == [g EXCEPT !.functions = Put(@, stmt.name, stmt.params)]

ReturnLine(stmt, g) ==
    Compiled(<<Line(g.indent_level, IF stmt.value.t = "none" THEN "return"
                                    ELSE "return " \o stmt.value.v)>>, g)

\* print keeps an expression as it is, formats a literal and drops commas
PrintArg(arg) ==
    IF /\ ~(startswith(arg, "\"") \/ startswith(arg, "'"))
       /\ ~isdigit(Without(arg, {".", "-"}))
       /\ arg \notin {"True", "False"}
    THEN arg
    ELSE format_value(PyStr(arg), "")

RECURSIVE PrintArgTexts(_)
PrintArgTexts(args) ==
    IF Len(args) = 0 THEN <<>>
    ELSE IF Head(args) = "," THEN PrintArgTexts(Tail(args))
    ELSE <<PrintArg(Head(args))>> \o PrintArgTexts(Tail(args))

PrintLine(stmt, g) ==
    Compiled(<<Line(g.indent_level, "print(" \o Join(PrintArgTexts(stmt.params)) \o ")")>>, g)

RECURSIVE compile_statements(_, _), CompileRest(_, _), CompileOne(_, _),
          FunBlock(_, _)

\* 'def name(params):', the global line, the body
FunBlock(stmt, g) ==
    Block(FunHeader(stmt), GlobalLine(g, stmt.body),
          compile_statements(stmt.body, Indented(g)), g)

\* one turn of the loop of compile_statements
CompileOne(stmt, g) ==
    IF stmt.type \in {"import", "include", "label", "goto"} THEN Compiled(<<>>, g)
    ELSE IF stmt.type = "declare"
    THEN IF stmt.is_static THEN Compiled(<<>>, g)
         ELSE Compiled(<<Line(g.indent_level,
                  stmt.name \o " = " \o ValueText(stmt.value, stmt.var_type))>>, g)
    ELSE IF stmt.type = "assign"
    THEN Compiled(<<Line(g.indent_level,
              stmt.name \o " = " \o ValueText(stmt.value, ""))>>, g)
    ELSE IF stmt.type = "print" THEN PrintLine(stmt, g)
    ELSE IF stmt.type = "inc"
    THEN Compiled(<<Line(g.indent_level, stmt.name \o " += 1")>>, g)
    ELSE IF stmt.type = "dec"
    THEN Compiled(<<Line(g.indent_level, stmt.name \o " -= 1")>>, g)
    ELSE IF stmt.type \in {"if", "while"}
    THEN Block(stmt.type \o " " \o stmt.value.v \o ":", <<>>,
               compile_statements(stmt.body, Indented(g)), g)
    ELSE IF stmt.type = "fun" THEN FunBlock(stmt, Registered(stmt, g))
    ELSE IF stmt.type = "call" THEN CallChecked(stmt, g)
    ELSE IF stmt.type = "return" THEN ReturnLine(stmt, g)
    ELSE GenRaise(g, ErrUnknownStatement)

CompileRest(r, statements) ==
    IF r.err # "" THEN r ELSE Merge(r, compile_statements(statements, r.g))

compile_statements(statements, g) ==
    IF Len(statements) = 0 THEN Compiled(<<>>, g)
    ELSE CompileRest(CompileOne(Head(statements), g), Tail(statements))

\* lib_var.func_name(args) and lib_var.member_name
LibLine(stmt, g) ==
    IF lower(stmt.name) \notin DOMAIN g.libraries
    THEN GenRaise(g, ErrLibraryNotLoaded(stmt.name))
    ELSE Compiled(<<Line(g.indent_level,
             lower(stmt.name) \o "." \o stmt.value.v
                \o (IF stmt.type = "lib_call"
                    THEN "(" \o Join(stmt.params) \o ")" ELSE ""))>>, g)

compile_single_statement(stmt, g) ==
    IF stmt.type \in {"include", "import"} THEN Compiled(<<>>, g)
    ELSE IF stmt.type \in {"lib_call", "lib_access"} THEN LibLine(stmt, g)
    ELSE IF stmt.type = "declare"
    THEN IF stmt.is_static THEN Compiled(<<>>, g)
         ELSE GenRaise(g, ErrNoIsExpression)
    ELSE IF stmt.type \in {"assign", "print"} THEN GenRaise(g, ErrNoIsExpression)
    ELSE IF stmt.type = "inc"
    THEN Compiled(<<Line(g.indent_level, stmt.name \o " += 1")>>, g)
    ELSE IF stmt.type = "dec"
    THEN Compiled(<<Line(g.indent_level, stmt.name \o " -= 1")>>, g)
    ELSE IF stmt.type \in {"if", "while"}
    THEN Block(stmt.type \o " " \o stmt.value.v \o ":", <<>>,
               compile_statements(stmt.body, Indented(g)), g)
    ELSE IF stmt.type = "call" THEN CallChecked(stmt, g)
    ELSE IF stmt.type = "return" THEN ReturnLine(stmt, g)
    ELSE IF stmt.type = "fun"
    THEN IF contains_goto(stmt.body)
         THEN GenRaise(Registered(stmt, g), ErrFunctionHasGoto)
         ELSE FunBlock(stmt, Registered(stmt, g))
    ELSE Compiled(<<>>, g)

\* the function definitions, compiled in program order, first error wins
RECURSIVE compile_each(_, _), EachRest(_, _)
EachRest(r, statements) ==
    IF r.err # "" THEN r ELSE Merge(r, compile_each(statements, r.g))

compile_each(statements, g) ==
    IF Len(statements) = 0 THEN Compiled(<<>>, g)
    ELSE EachRest(compile_single_statement(Head(statements), g), Tail(statements))

IsFun(stmt) == stmt.type = "fun"
IsDispatched(stmt) == stmt.type \notin {"fun", "label"}

non_function_statements(ast) == SelectSeq(ast, IsDispatched)

\* the last top-level declaration of label l
LabelAt(ast, l) ==
    CHOOSE i \in 1..Len(ast) :
        /\ ast[i].type = "label" /\ ast[i].name = l
        /\ \A j \in (i+1)..Len(ast) : ~(ast[j].type = "label" /\ ast[j].name = l)

\* label_map[name] = len(non_function_statements) when the label is met
label_map(ast) ==
    [l \in {ast[i].name : i \in {j \in 1..Len(ast) : ast[j].type = "label"}} |->
        Len(non_function_statements(SubSeq(ast, 1, LabelAt(ast, l))))]

Texts(code) == [i \in 1..Len(code) |-> code[i].text]

\* every line stripped of its own indentation
Stripped(r) == IF r.err # "" THEN r ELSE Compiled(Texts(r.code), r.g)

\* the lines under 'if pc == idx:'
Arm(stmt, map, g) ==
    IF stmt.type = "goto"
    THEN IF stmt.name \in DOMAIN map
         THEN Compiled(<<"pc = " \o ToString(map[stmt.name]), "continue">>, g)
         ELSE Compiled(<<"raise RuntimeError(f'Undefined label: " \o stmt.name \o "')">>, g)
    ELSE Stripped(compile_single_statement(stmt, g))

MergeArm(r, rest) ==
    IF rest.err # "" THEN rest ELSE Compiled(<<r.code>> \o rest.code, rest.g)

RECURSIVE Arms(_, _, _), ArmsRest(_, _, _)
ArmsRest(r, statements, map) ==
    IF r.err # "" THEN r ELSE MergeArm(r, Arms(statements, map, r.g))

Arms(statements, map, g) ==
    IF Len(statements) = 0 THEN Compiled(<<>>, g)
    ELSE ArmsRest(Arm(Head(statements), map, g), Tail(statements), map)

GotoText(funs, body) ==
    IF body.err # "" THEN [funs |-> <<>>, arms |-> <<>>, err |-> body.err]
    ELSE [funs |-> funs.code, arms |-> body.code, err |-> ""]

MainProgram(ast, funs) ==
    IF funs.err # "" THEN [funs |-> <<>>, arms |-> <<>>, err |-> funs.err]
    ELSE GotoText(funs, Arms(non_function_statements(ast), label_map(ast),
                             [funs.g EXCEPT !.indent_level = 3]))

\* the pieces of the generated text: the function definitions, then in
\* main_program the arm of every index under 'while pc < N:'
generate_goto_implementation(ast, g) ==
    MainProgram(ast, compile_each(SelectSeq(ast, IsFun), g))

\* first pass of compile_to_python over the top-level statements
RECURSIVE collect_static_and_global(_, _)
collect_static_and_global(ast, g) ==
    IF Len(ast) = 0 THEN g
    ELSE collect_static_and_global(Tail(ast),
            IF Head(ast).type = "declare" /\ Head(ast).is_static
            THEN [g EXCEPT !.static_vars =
                     Put(@, Head(ast).name, <<Head(ast).var_type, Head(ast).value>>)]
            ELSE IF Head(ast).type = "global"
            THEN [g EXCEPT !.global_vars =
                     Put(@, Head(ast).name, <<Head(ast).var_type, Head(ast).value>>)]
            ELSE g)

Generated(status, mode, c, label_index, funs, arms, code, error) ==
    [status |-> status, mode |-> mode, labels |-> c.labels, gotos |-> c.gotos,
     label_map |-> label_index, funs |-> funs, arms |-> arms, code |-> code,
     error |-> error]

GotoResult(ast, c, m) ==
    IF m.err # "" THEN Generated("error", "goto", c, EmptyMap, <<>>, <<>>, <<>>, m.err)
    ELSE Generated("ok", "goto", c, label_map(ast), m.funs, m.arms, <<>>, "")

StructuredResult(c, r) ==
    IF r.err # "" THEN Generated("error", "structured", c, EmptyMap, <<>>, <<>>, <<>>, r.err)
    ELSE Generated("ok", "structured", c, EmptyMap, <<>>, <<>>, r.code, "")

\* the library directives of the top level: libraries[lib_var] = lib_name
RECURSIVE collect_libraries(_, _)
collect_libraries(ast, g) ==
    IF Len(ast) = 0 THEN g
    ELSE collect_libraries(Tail(ast),
            IF Head(ast).type \in {"include", "import"}
            THEN [g EXCEPT !.libraries = Put(@, lower(Head(ast).name), Head(ast).name)]
            ELSE g)

Prepared(ast, c) ==
    collect_static_and_global(ast,
        collect_libraries(ast,
            [NewGenerator EXCEPT !.labels = c.labels, !.gotos = c.gotos]))

Emitted(ast, c) ==
    IF c.err # "" THEN Generated("error", "", c, EmptyMap, <<>>, <<>>, <<>>, c.err)
    ELSE IF DOMAIN c.labels # {} \/ Len(c.gotos) > 0
    THEN GotoResult(ast, c, generate_goto_implementation(ast, Prepared(ast, c)))
    ELSE StructuredResult(c, compile_statements(ast, Prepared(ast, c)))

compile_to_python(ast) == Emitted(ast, collect_labels_and_gotos(ast))

-----------------------------------------------------------------------------
(* The generated main_program, as Python runs it *)

\* 'while pc < N:' is emitted with N = len(non_function_statements)
LoopBound == Len(gen.arms)

\* Python compiles the whole text before it runs any of it: an arm without a
\* line, or an arm holding a block header whose next line lost its
\* indentation, is an IndentationError
ValidPython ==
    \A i \in 1..Len(gen.arms) :
        /\ Len(gen.arms[i]) > 0
        /\ \A j \in 1..Len(gen.arms[i]) : ~endswith(gen.arms[i][j], ":")

IntOf(text) == CHOOSE k \in 0..Len(lmast) : ToString(k) = text

CalledName(text) ==
    SubSeq(text, 1, (CHOOSE i \in 1..Len(text) :
                        /\ SubSeq(text, i, i) = "("
                        /\ \A j \in 1..(i-1) : SubSeq(text, j, j) # "(") - 1)

\* the body of a called function raises: it updates in place a name that is
\* local to the function and not yet bound
RECURSIVE BodyRaises(_, _)
BodyRaises(body, bound) ==
    IF Len(body) = 0 THEN FALSE
    ELSE LET stmt == Head(body)
         IN IF stmt.type = "return" THEN FALSE
            ELSE IF stmt.type \in {"inc", "dec"}
            THEN stmt.name \notin bound \/ BodyRaises(Tail(body), bound)
            ELSE IF stmt.type \in {"declare", "assign"} /\ ~stmt.is_static
            THEN BodyRaises(Tail(body), bound \cup {stmt.name})
            ELSE BodyRaises(Tail(body), bound)

CallRaises(name) ==
    \E i \in 1..Len(lmast) :
        /\ lmast[i].type = "fun" /\ lmast[i].name = name
        /\ \A j \in (i+1)..Len(lmast) : ~(lmast[j].type = "fun" /\ lmast[j].name = name)
        /\ BodyRaises(lmast[i].body, Range(lmast[i].params))

\* the lines of one arm, run in order with the counter at p
RECURSIVE ExecLines(_, _)
ExecLines(lines, p) ==
    IF Len(lines) = 0 THEN [pc |-> p, ctl |-> "next"]
    ELSE LET l == Head(lines)
         IN IF startswith(l, "pc = ")
            THEN ExecLines(Tail(lines), IntOf(SubSeq(l, 6, Len(l))))
            ELSE IF l = "continue" THEN [pc |-> p, ctl |-> "continue"]
            ELSE IF startswith(l, "raise ") THEN [pc |-> p, ctl |-> "raise"]
            ELSE IF l = "pc += 1" THEN ExecLines(Tail(lines), p + 1)
            ELSE IF l = "pc -= 1" THEN ExecLines(Tail(lines), p - 1)
            ELSE IF endswith(l, " += 1") \/ endswith(l, " -= 1")
            THEN [pc |-> p, ctl |-> "raise"]      \* UnboundLocalError
            ELSE IF endswith(l, ")") /\ HasChar(l, "(")
            THEN IF CallRaises(CalledName(l)) THEN [pc |-> p, ctl |-> "raise"]
                 ELSE ExecLines(Tail(lines), p)
            ELSE [pc |-> p, ctl |-> "raise"]

\* one pass over the body of the while loop: every 'if pc == idx:' is tested
\* in turn against the counter as it is by then, and 'pc += 1' ends the pass
RECURSIVE Dispatch(_, _, _), AfterArm(_, _, _)
AfterArm(r, idx, executed) ==
    IF r.ctl = "next" THEN Dispatch(idx + 1, r.pc, executed)
    ELSE [pc |-> r.pc, executed |-> executed, kind |-> r.ctl]

Dispatch(idx, p, executed) ==
    IF idx >= LoopBound THEN [pc |-> p + 1, executed |-> executed, kind |-> "next"]
    ELSE IF p # idx THEN Dispatch(idx + 1, p, executed)
    ELSE AfterArm(ExecLines(gen.arms[idx + 1], p), idx, Append(executed, idx))

ParserUnchanged == UNCHANGED <<stvars, parsevars, expr, scan>>

Compile ==
    /\ output.parsed /\ output.exit = ""
    /\ gen.status = "idle"
    /\ gen' = compile_to_python(lmast)
    /\ UNCHANGED <<lmast, pc, run, output>>
    /\ ParserUnchanged

StartRun ==
    /\ gen.status = "ok" /\ gen.mode = "goto"
    /\ run.status = "idle"
    /\ run' = [run EXCEPT !.status = IF ValidPython THEN "running"
                                    ELSE "syntax_error"]
    /\ pc' = 0
    /\ UNCHANGED <<lmast, gen, output>>
    /\ ParserUnchanged

Iterate ==
    /\ run.status = "running"
    /\ pc < LoopBound
    /\ \E r \in {Dispatch(0, pc, <<>>)} :
          /\ pc' = r.pc
          /\ run' = [status |-> IF r.kind = "raise" THEN "raised" ELSE "running",
                     step |-> [before |-> pc, executed |-> r.executed,
                               kind |-> r.kind]]
    /\ UNCHANGED <<lmast, gen, output>>
    /\ ParserUnchanged

EndLoop ==
    /\ run.status = "running"
    /\ ~(pc < LoopBound)
    /\ run' = [run EXCEPT !.status = "ended"]
    /\ UNCHANGED <<lmast, gen, pc, output>>
    /\ ParserUnchanged

-----------------------------------------------------------------------------
(* Programs for the generator: every AST below is one the parser returns *)

TopStatements ==
    { LabelStmt("L"), LabelStmt("M"), GotoStmt("L"), GotoStmt("M"),
      IncStmt("x"), IncStmt("pc"), DecStmt("pc"),
      CallStmt("f", <<>>),
      FunStmt("f", <<>>, <<>>),
      FunStmt("f", <<>>, <<IncStmt("x")>>),
      BlockStmt("if", "(1 == 1)", <<GotoStmt("L")>>),
      BlockStmt("while", "(1 == 1)", <<LabelStmt("M")>>),
      BlockStmt("if", "(1 == 1)", <<IncStmt("x")>>),
      DeclareStmt("int", "x", PyStr("1"), FALSE) }

\* the names of the functions defined at any depth, in program order
RECURSIVE FunctionsDefined(_)
FunctionsDefined(ast) ==
    IF Len(ast) = 0 THEN <<>>
    ELSE (IF Head(ast).type = "fun" THEN <<Head(ast).name>> ELSE <<>>)
         \o FunctionsDefined(Head(ast).body) \o FunctionsDefined(Tail(ast))

\* declare_function rejects a second definition of a name
Parseable(ast) ==
    \A i, j \in 1..Len(FunctionsDefined(ast)) :
        FunctionsDefined(ast)[i] = FunctionsDefined(ast)[j] => i = j

Programs(size) ==
    {ast \in UNION {[1..n -> TopStatements] : n \in 0..size} : Parseable(ast)}

InitGoto ==
    /\ SetSTInit
    /\ frames = <<TopFrame>>
    /\ pstate = "done"
    /\ last = NoOutcome
    /\ lmast \in Programs(MaxTop)
    /\ gen = NoGen
    /\ pc = 0
    /\ run = NoRun
    /\ output = [NoOutput EXCEPT !.parsed = TRUE]
    /\ expr = NoExpr
    /\ scan = NoScan

NextGoto ==
    \/ Compile
    \/ StartRun
    \/ Iterate
    \/ EndLoop

SpecGoto == InitGoto /\ [][NextGoto]_vars

-----------------------------------------------------------------------------
(* Goto lowering *)

GotoMode == gen.status = "ok" /\ gen.mode = "goto"

Dispatched == non_function_statements(lmast)

JumpArm(k) == <<"pc = " \o ToString(k), "continue">>

\* C8: every top-level goto whose label is declared exactly once in the
\* program gets an arm that sets pc to one index of the flattened list and
\* restarts the loop, the same index for every goto to that label, and a jump
\* taken by the running loop leaves pc at that index.
C8_GotoLowering ==
    GotoMode =>
        /\ \A i \in 1..Len(Dispatched) :
              Dispatched[i].type = "goto" /\ Dispatched[i].name \in DOMAIN gen.labels
                  => \E k \in 0..Len(Dispatched) :
                        /\ gen.arms[i] = JumpArm(k)
                        /\ \A j \in 1..Len(Dispatched) :
                              Dispatched[j].type = "goto"
                              /\ Dispatched[j].name = Dispatched[i].name
                                  => gen.arms[j] = JumpArm(k)
        /\ run.step.kind = "continue"
              => \E l \in DOMAIN gen.label_map : pc = gen.label_map[l]

RECURSIVE HasGoto(_)
HasGoto(statements) ==
    IF Len(statements) = 0 THEN FALSE
    ELSE \/ Head(statements).type = "goto"
         \/ HasGoto(Head(statements).body)
         \/ HasGoto(Tail(statements))

\* C9: in goto mode the arm of a top-level if/while whose body holds a goto
\* contains a line that sets pc; the goto is not dropped.
C9_NestedGotoLowered ==
    GotoMode =>
        \A i \in 1..Len(Dispatched) :
            Dispatched[i].type \in {"if", "while"} /\ HasGoto(Dispatched[i].body)
                => \E j \in 1..Len(gen.arms[i]) : startswith(gen.arms[i][j], "pc = ")

\* C10: the running loop is a program-counter machine: it starts with pc = 0,
\* an iteration executes exactly the statement whose index pc had at its
\* start, after a statement that is not a goto pc is that index plus one, and
\* the loop has ended only with pc >= N.
C10_DispatchLoop ==
    /\ run.status = "running" /\ run.step.kind = "none" => pc = 0
    /\ run.step.kind # "none" => run.step.executed = <<run.step.before>>
    /\ run.step.kind = "next" => pc = run.step.before + 1
    /\ run.status = "ended" => pc >= LoopBound

-----------------------------------------------------------------------------
(* main(): compile, write the output file, exit *)

MaxUnit == 3        \* top-level statements of a compilation unit

\* write_python_file either returns the path or raises LumenFileError
write_python_file_any_time(written) ==
    /\ output.file = "none" /\ output.exit = ""
    /\ output' = [output EXCEPT !.file = IF written THEN "written" ELSE "failed"]
    /\ UNCHANGED <<lmast, gen, pc, run>>
    /\ ParserUnchanged

write_python_file(written) ==
    /\ gen.status = "ok"
    /\ output.file = "none" /\ output.exit = ""
    /\ output' = [output EXCEPT !.file = IF written THEN "written" ELSE "failed"]
    /\ UNCHANGED <<lmast, gen, pc, run>>
    /\ ParserUnchanged

\* except (LumenSyntaxError, LumenSemanticError) and except Exception
ExitCompileError ==
    /\ gen.status = "error"
    /\ output.exit = ""
    /\ output' = [output EXCEPT !.exit = "1"]
    /\ UNCHANGED <<lmast, gen, pc, run>>
    /\ ParserUnchanged

\* except LumenFileError
ExitFileError ==
    /\ output.file = "failed"
    /\ output.exit = ""
    /\ output' = [output EXCEPT !.exit = "1"]
    /\ UNCHANGED <<lmast, gen, pc, run>>
    /\ ParserUnchanged

\* main returns, or compile_to_binary was requested and failed
ExitAfterWrite(code) ==
    /\ output.file = "written"
    /\ output.exit = ""
    /\ output' = [output EXCEPT !.exit = code]
    /\ UNCHANGED <<lmast, gen, pc, run>>
    /\ ParserUnchanged

Condition == "(1 == 1)"

\* statements of the shapes parse_tokens returns, and the library statements
\* compile_to_python accepts
UnitStatements ==
    { LabelStmt("L"), GotoStmt("L"), GotoStmt("M"),
      CallStmt("f", <<>>), CallStmt("f", <<"1">>), CallStmt("g", <<>>),
      FunStmt("f", <<>>, <<>>),
      FunStmt("f", <<>>, <<CallStmt("g", <<>>)>>),
      FunStmt("g", <<>>, <<CallStmt("f", <<>>)>>),
      FunStmt("f", <<>>, <<BlockStmt("if", Condition, <<GotoStmt("L")>>)>>),
      FunStmt("g", <<>>, <<LabelStmt("L")>>),
      FunStmt("g", <<>>, <<GotoStmt("M")>>),
      FunStmt("f", <<>>, <<FunStmt("g", <<>>, <<GotoStmt("L"), LabelStmt("L")>>)>>),
      BlockStmt("if", Condition,
                <<FunStmt("g", <<>>, <<LabelStmt("L"), GotoStmt("L")>>)>>),
      BlockStmt("while", Condition, <<LabelStmt("L")>>),
      BlockStmt("if", Condition, <<GotoStmt("M")>>),
      BlockStmt("if", Condition, <<CallStmt("f", <<>>)>>),
      DeclareStmt("int", "r", PyStr("f ( 1 )"), FALSE),
      IncludeStmt("Math"),
      LibCallStmt("Math", "sqrt", <<"4">>),
      LibAccessStmt("Math", "pi"),
      BlockStmt("if", Condition, <<LibCallStmt("Math", "sqrt", <<"4">>)>>) }

Units(size) ==
    {ast \in UNION {[1..n -> UnitStatements] : n \in 0..size} : Parseable(ast)}

InitCompile ==
    /\ SetSTInit
    /\ frames = <<TopFrame>>
    /\ pstate = "done"
    /\ last = NoOutcome
    /\ lmast \in Units(MaxUnit)
    /\ gen = NoGen
    /\ pc = 0
    /\ run = NoRun
    /\ output = [NoOutput EXCEPT !.parsed = TRUE]
    /\ expr = NoExpr
    /\ scan = NoScan

NextCompile ==
    \/ Compile
    \/ \E written \in BOOLEAN : write_python_file(written)
    \/ ExitCompileError
    \/ ExitFileError
    \/ \E code \in {"0", "1"} : ExitAfterWrite(code)

SpecCompile == InitCompile /\ [][NextCompile]_vars

-----------------------------------------------------------------------------
(* Labels, gotos and functions of a compilation unit *)

\* the label names declared at any depth, one entry per declaration
RECURSIVE LabelsDeclared(_)
LabelsDeclared(ast) ==
    IF Len(ast) = 0 THEN <<>>
    ELSE (IF Head(ast).type = "label" THEN <<Head(ast).name>> ELSE <<>>)
         \o LabelsDeclared(Head(ast).body) \o LabelsDeclared(Tail(ast))

\* the label names targeted by a goto at any depth
RECURSIVE GotoTargets(_)
GotoTargets(ast) ==
    IF Len(ast) = 0 THEN {}
    ELSE (IF Head(ast).type = "goto" THEN {Head(ast).name} ELSE {})
         \cup GotoTargets(Head(ast).body) \cup GotoTargets(Tail(ast))

DanglingGoto == GotoTargets(lmast) \ Range(LabelsDeclared(lmast)) # {}

DuplicateLabel ==
    \E i, j \in 1..Len(LabelsDeclared(lmast)) :
        i # j /\ LabelsDeclared(lmast)[i] = LabelsDeclared(lmast)[j]

CompileEnded == gen.status # "idle"

C12_DuplicateLabel ==
    CompileEnded /\ DuplicateLabel
        => gen.status = "error" /\ gen.error = ErrDuplicateLabel

C12_Witness ==
    /\ \E i, j \in 1..Len(lmast) :
          /\ lmast[i].type = "fun" /\ lmast[j].type = "while"
          /\ \E l \in Range(LabelsDeclared(lmast[i].body)) :
                l \in Range(LabelsDeclared(lmast[j].body))
    /\ \A i \in 1..Len(lmast) : lmast[i].type # "label"
    /\ gen.status = "error" /\ gen.error = ErrDuplicateLabel

\* some function defined at any depth has a label or a goto in its body
RECURSIVE FunctionWithGoto(_)
FunctionWithGoto(ast) ==
    IF Len(ast) = 0 THEN FALSE
    ELSE \/ /\ Head(ast).type = "fun"
            /\ \/ Len(LabelsDeclared(Head(ast).body)) > 0
               \/ GotoTargets(Head(ast).body) # {}
         \/ FunctionWithGoto(Head(ast).body)
         \/ FunctionWithGoto(Tail(ast))

\* C13: a function defined anywhere (top level, inside an if/while body or
\* inside another function) whose body contains a label or a goto at any depth
\* makes compilation fail with a goto-in-function error, unless the duplicate
\* or undefined label check has already rejected the program; no such
\* function is ever emitted.
C13_NoGotoInFunction ==
    CompileEnded /\ FunctionWithGoto(lmast)
        => /\ gen.status = "error"
           /\ \/ gen.error \in {ErrFunctionHasGoto, ErrGotoFromFunction}
              \/ gen.error = ErrDuplicateLabel /\ DuplicateLabel
              \/ gen.error = ErrUndefinedLabel /\ DanglingGoto

\* the call statements at any depth
RECURSIVE CallsIn(_)
CallsIn(ast) ==
    IF Len(ast) = 0 THEN {}
    ELSE (IF Head(ast).type = "call" THEN {Head(ast)} ELSE {})
         \cup CallsIn(Head(ast).body) \cup CallsIn(Tail(ast))

\* the function definitions at any depth
RECURSIVE FunsIn(_)
FunsIn(ast) ==
    IF Len(ast) = 0 THEN {}
    ELSE (IF Head(ast).type = "fun" THEN {Head(ast)} ELSE {})
         \cup FunsIn(Head(ast).body) \cup FunsIn(Tail(ast))

TopLevelFuns == {lmast[i] : i \in {j \in 1..Len(lmast) : lmast[j].type = "fun"}}

\* the call names a function of funs and passes as many arguments as it has
\* parameters
Resolves(call, funs) ==
    \E f \in funs : f.name = call.name /\ Len(f.params) = Len(call.params)

\* C14: a program in which every call statement matches a function defined at
\* top level, before or after the call in the program text, is never rejected
\* for an undefined function.
C14_ForwardReference ==
    CompileEnded /\ (\A call \in CallsIn(lmast) : Resolves(call, TopLevelFuns))
        => gen.error # ErrUndefinedFunction

\* the text parse_value_expression keeps for the tokens of a call, joined by
\* single spaces
RECURSIVE Spaced(_)
Spaced(tokens) ==
    IF Len(tokens) = 0 THEN ""
    ELSE IF Len(tokens) = 1 THEN Head(tokens)
    ELSE Head(tokens) \o " , " \o Spaced(Tail(tokens))

CallText(call) ==
    IF Len(call.params) = 0 THEN call.name \o " ( )"
    ELSE call.name \o " ( " \o Spaced(call.params) \o " )"

\* the declarations at any depth
RECURSIVE DeclarationsIn(_)
DeclarationsIn(ast) ==
    IF Len(ast) = 0 THEN {}
    ELSE (IF Head(ast).type = "declare" THEN {Head(ast)} ELSE {})
         \cup DeclarationsIn(Head(ast).body) \cup DeclarationsIn(Tail(ast))

\* the calls that are the value expression of a declaration
ValueCallsIn(ast) ==
    {call \in {CallStmt(name, args) : name \in {"f", "g"}, args \in {<<>>, <<"1">>}} :
        \E stmt \in DeclarationsIn(ast) : stmt.value.v = CallText(call)}

\* C15: when some use of a function, as a call statement or as a call in a
\* value expression, names no declared function or passes another number of
\* arguments than the function has parameters, code generation fails.
C15_FunctionUseChecked ==
    CompileEnded
    /\ (\E call \in CallsIn(lmast) \cup ValueCallsIn(lmast) :
            ~Resolves(call, FunsIn(lmast)))
        => gen.status = "error"

\* the library calls and accesses at any depth
RECURSIVE LibUsesIn(_)
LibUsesIn(ast) ==
    IF Len(ast) = 0 THEN {}
    ELSE (IF Head(ast).type \in {"lib_call", "lib_access"} THEN {Head(ast)} ELSE {})
         \cup LibUsesIn(Head(ast).body) \cup LibUsesIn(Tail(ast))

\* an include or import statement of the program names the library
Loaded(lib_name) ==
    \E i \in 1..Len(lmast) :
        /\ lmast[i].type \in {"include", "import"}
        /\ lower(lmast[i].name) = lower(lib_name)

\* C16: a program using a library that no include/import statement loads
\* fails code generation, and never as an unknown statement; a program whose
\* library uses are all loaded is rejected neither for a missing library nor
\* for an unknown statement, in either mode and at any depth.
C16_LibraryUse ==
    CompileEnded /\ LibUsesIn(lmast) # {}
        => /\ gen.error # ErrUnknownStatement
           /\ (\E use \in LibUsesIn(lmast) : ~Loaded(use.name))
                 => gen.status = "error"
           /\ (\A use \in LibUsesIn(lmast) : Loaded(use.name))
                 => \A use \in LibUsesIn(lmast) :
                       gen.error # ErrLibraryNotLoaded(use.name)

-----------------------------------------------------------------------------
(* ExpressionParser *)

MaxOps == 2         \* operators of a well-formed expression
MaxTokens == 4      \* tokens of an arbitrary token run

OperatorTokens == {"!", "not", "||", "or", "&&", "and", "==", "!=",
                   "<", ">", "<=", ">=", "+", "-", "*", "/", "%"}

precedence(op) ==
    IF op \in {"!", "not"} THEN 7
    ELSE IF op \in {"||", "or"} THEN 1
    ELSE IF op \in {"&&", "and"} THEN 2
    ELSE IF op \in {"==", "!="} THEN 3
    ELSE IF op \in {"<", ">", "<=", ">="} THEN 4
    ELSE IF op \in {"+", "-"} THEN 5
    ELSE 6

is_operator(token) == token \in OperatorTokens

\* a number, a quoted string literal or a name; the words and, or, not match
\* the name pattern
is_operand(token) == FloatParses(token) \/ Quoted(token) \/ isidentifier(token)

ErrMismatched == "Mismatched parentheses in expression"
ErrNotEnoughOperands(token) ==
    "Invalid expression: not enough operands for operator '" \o token \o "'"
ErrMalformed == "Invalid expression: malformed"

ExprRaise(msg) == [t |-> "raise", v |-> msg]

Peek(stack) == stack[Len(stack)]

\* while operator_stack and operator_stack[-1] != '(': pop to output
RECURSIVE PopToParen(_, _)
PopToParen(output_queue, operator_stack) ==
    IF Len(operator_stack) > 0 /\ Peek(operator_stack) # "("
    THEN PopToParen(Append(output_queue, Peek(operator_stack)), Pop(operator_stack))
    ELSE [output |-> output_queue, operator_stack |-> operator_stack]

\* pop the operators of higher or equal precedence to output
RECURSIVE PopHigher(_, _, _)
PopHigher(output_queue, operator_stack, token) ==
    IF /\ Len(operator_stack) > 0
       /\ Peek(operator_stack) # "("
       /\ Peek(operator_stack) \in OperatorTokens
       /\ precedence(Peek(operator_stack)) >= precedence(token)
    THEN PopHigher(Append(output_queue, Peek(operator_stack)),
                   Pop(operator_stack), token)
    ELSE [output |-> output_queue, operator_stack |-> operator_stack]

\* pop the remaining operators
RECURSIVE Drain(_, _)
Drain(output_queue, operator_stack) ==
    IF Len(operator_stack) = 0 THEN [err |-> "", output |-> output_queue]
    ELSE IF Peek(operator_stack) \in {"(", ")"}
    THEN [err |-> ErrMismatched, output |-> <<>>]
    ELSE Drain(Append(output_queue, Peek(operator_stack)), Pop(operator_stack))

RECURSIVE Shunt(_, _, _)

Closed(p, rest) ==
    IF Len(p.operator_stack) > 0
    THEN Shunt(rest, p.output, Pop(p.operator_stack))
    ELSE [err |-> ErrMismatched, output |-> <<>>]

Pushed(p, token, rest) == Shunt(rest, p.output, Append(p.operator_stack, token))

\* the infix to postfix loop of parse_expression
Shunt(tokens, output_queue, operator_stack) ==
    IF Len(tokens) = 0 THEN Drain(output_queue, operator_stack)
    ELSE IF is_operand(Head(tokens))
    THEN Shunt(Tail(tokens), Append(output_queue, Head(tokens)), operator_stack)
    ELSE IF Head(tokens) = "("
    THEN Shunt(Tail(tokens), output_queue, Append(operator_stack, "("))
    ELSE IF Head(tokens) = ")"
    THEN Closed(PopToParen(output_queue, operator_stack), Tail(tokens))
    ELSE IF is_operator(Head(tokens))
    THEN IF Head(tokens) \in {"!", "not"}
         THEN Shunt(Tail(tokens), output_queue, Append(operator_stack, Head(tokens)))
         ELSE Pushed(PopHigher(output_queue, operator_stack, Head(tokens)),
                     Head(tokens), Tail(tokens))
    ELSE Shunt(Tail(tokens), Append(output_queue, Head(tokens)), operator_stack)

BinaryText(token, left, right) ==
    IF token \in {"&&", "and"} THEN "(" \o left \o " and " \o right \o ")"
    ELSE IF token \in {"||", "or"} THEN "(" \o left \o " or " \o right \o ")"
    ELSE "(" \o left \o " " \o token \o " " \o right \o ")"

RECURSIVE Reduce(_, _)
Reduce(postfix, stack) ==
    IF Len(postfix) = 0
    THEN IF Len(stack) # 1 THEN ExprRaise(ErrMalformed) ELSE PyStr(stack[1])
    ELSE IF is_operator(Head(postfix))
    THEN IF Head(postfix) \in {"!", "not"} /\ Len(stack) >= 1
         THEN Reduce(Tail(postfix),
                     Append(Pop(stack), "(not " \o Peek(stack) \o ")"))
         ELSE IF Len(stack) >= 2
         THEN Reduce(Tail(postfix),
                     Append(Pop(Pop(stack)),
                            BinaryText(Head(postfix), Peek(Pop(stack)), Peek(stack))))
         ELSE ExprRaise(ErrNotEnoughOperands(Head(postfix)))
    ELSE Reduce(Tail(postfix), Append(stack, Head(postfix)))

postfix_to_python(postfix) ==
    IF Len(postfix) = 0 THEN PyNone
    ELSE IF Len(postfix) = 1 THEN PyStr(postfix[1])
    ELSE Reduce(postfix, <<>>)

Converted(r) == IF r.err # "" THEN ExprRaise(r.err) ELSE postfix_to_python(r.output)

parse_expression(tokens) ==
    IF Len(tokens) = 0 THEN PyNone
    ELSE IF Len(tokens) = 1 THEN PyStr(tokens[1])
    ELSE Converted(Shunt(tokens, <<>>, <<>>))

ParseExpression ==
    /\ ~expr.called
    /\ expr' = [expr EXCEPT !.called = TRUE, !.result = parse_expression(expr.tokens)]
    /\ UNCHANGED <<stvars, parsevars, lmast, gen, pc, run, output, scan>>

-----------------------------------------------------------------------------
(* Inputs of the expression specification *)

Leaf(token) == [op |-> token, args |-> <<>>]
Unary(op, e) == [op |-> op, args |-> <<e>>]
Binary(op, l, r) == [op |-> op, args |-> <<l, r>>]

Operands == {"a", "2"}
\* one binary operator of each precedence level, the subtraction of the
\* associativity example and a word-form operator
BinaryOperators == {"||", "&&", "==", "<", "+", "-", "*", "and"}

\* the well-formed expressions with exactly n operators
RECURSIVE TreesWith(_)
TreesWith(n) ==
    IF n = 0 THEN {Leaf(token) : token \in Operands}
    ELSE {Unary("!", e) : e \in TreesWith(n - 1)}
         \cup UNION {{Binary(op, l, r) : op \in BinaryOperators,
                                         l \in TreesWith(i),
                                         r \in TreesWith(n - 1 - i)} :
                     i \in 0..(n - 1)}

Trees(size) == UNION {TreesWith(n) : n \in 0..size}

IsLeaf(e) == Len(e.args) = 0
IsUnary(e) == Len(e.args) = 1

Parenthesised(tokens) == <<"(">> \o tokens \o <<")">>

\* the infix token run of an expression, with only the parentheses that
\* precedence and left associativity require
RECURSIVE Infix(_)
Infix(e) ==
    IF IsLeaf(e) THEN <<e.op>>
    ELSE IF IsUnary(e)
    THEN <<e.op>> \o (IF IsLeaf(e.args[1]) \/ IsUnary(e.args[1])
                      THEN Infix(e.args[1])
                      ELSE Parenthesised(Infix(e.args[1])))
    ELSE (IF IsLeaf(e.args[1]) \/ precedence(e.args[1].op) >= precedence(e.op)
          THEN Infix(e.args[1]) ELSE Parenthesised(Infix(e.args[1])))
         \o <<e.op>>
         \o (IF IsLeaf(e.args[2]) \/ precedence(e.args[2].op) > precedence(e.op)
             THEN Infix(e.args[2]) ELSE Parenthesised(Infix(e.args[2])))

\* the fully grouped Python text of an expression
RECURSIVE Grouped(_)
Grouped(e) ==
    IF IsLeaf(e) THEN e.op
    ELSE IF IsUnary(e) THEN "(not " \o Grouped(e.args[1]) \o ")"
    ELSE BinaryText(e.op, Grouped(e.args[1]), Grouped(e.args[2]))

RunTokens == {"a", "2", "+", "!", "(", ")"}
TokenRuns(size) == UNION {[1..n -> RunTokens] : n \in 0..size}

InitExpr ==
    /\ SetSTInit
    /\ frames = <<TopFrame>>
    /\ pstate = "parsing"
    /\ last = NoOutcome
    /\ lmast = <<>>
    /\ gen = NoGen
    /\ pc = 0
    /\ run = NoRun
    /\ output = NoOutput
    /\ scan = NoScan
    /\ \/ \E e \in Trees(MaxOps) : expr = [NoExpr EXCEPT !.tree = e, !.tokens = Infix(e)]
       \/ \E tokens \in TokenRuns(MaxTokens) : expr = [NoExpr EXCEPT !.tokens = tokens]

NextExpr == ParseExpression

SpecExpr == InitExpr /\ [][NextExpr]_vars

\* C17: the token run of a well-formed expression, written with the
\* parentheses precedence and left associativity require, resolves to the
\* fully grouped text of that expression; a single token is returned unchanged.
C17_PrecedenceGrouping ==
    expr.called
        => /\ expr.tree # NoTree => expr.result = PyStr(Grouped(expr.tree))
           /\ Len(expr.tokens) = 1 => expr.result = PyStr(expr.tokens[1])

\* some closing parenthesis has no opening one before it, or some opening
\* parenthesis is never closed
RECURSIVE Unbalanced(_, _)
Unbalanced(tokens, depth) ==
    IF Len(tokens) = 0 THEN depth # 0
    ELSE IF Head(tokens) = "(" THEN Unbalanced(Tail(tokens), depth + 1)
    ELSE IF Head(tokens) = ")"
    THEN depth = 0 \/ Unbalanced(Tail(tokens), depth - 1)
    ELSE Unbalanced(Tail(tokens), depth)

\* reducing the postfix sequence, some operator finds fewer operands on the
\* stack than it takes; depth is the number of operands on the stack
RECURSIVE Starves(_, _)
Starves(postfix, depth) ==
    IF Len(postfix) = 0 THEN FALSE
    ELSE IF is_operator(Head(postfix))
    THEN IF Head(postfix) \in {"!", "not"} /\ depth >= 1
         THEN Starves(Tail(postfix), depth)
         ELSE IF depth >= 2 THEN Starves(Tail(postfix), depth - 1)
         ELSE TRUE
    ELSE Starves(Tail(postfix), depth + 1)

StarvedPostfix(r) == r.err = "" /\ Starves(r.output, 0)

\* C18: on a token run of several tokens with an unmatched parenthesis, or
\* whose postfix sequence leaves an operator with too few operands,
\* parse_expression raises and returns no expression string.
C18_MalformedRejected ==
    /\ expr.called
    /\ Len(expr.tokens) > 1
    /\ \/ Unbalanced(expr.tokens, 0)
       \/ StarvedPostfix(Shunt(expr.tokens, <<>>, <<>>))
    => expr.result.t = "raise"

-----------------------------------------------------------------------------
(* The compilation run: start(), compile_to_python, write_python_file *)

ErrEmptyValue == "Empty value expression"
ErrNoValue == "Variable declared without value"
ErrTokenize == "Tokenization failed"

\* ' '.join(value_tokens)
RECURSIVE JoinSpace(_)
JoinSpace(tokens) ==
    IF Len(tokens) = 0 THEN ""
    ELSE IF Len(tokens) = 1 THEN Head(tokens)
    ELSE Head(tokens) \o " " \o JoinSpace(Tail(tokens))

\* every exception of parse_expression is caught and the tokens are kept
Fallback(r, value_tokens) ==
    IF r.t = "raise" THEN PyStr(JoinSpace(value_tokens)) ELSE r

parse_value_expression(value_tokens) ==
    IF Len(value_tokens) = 0 THEN ExprRaise(ErrEmptyValue)
    ELSE Fallback(parse_expression(value_tokens), value_tokens)

Rejected(name, var_type, msg) ==
    /\ pstate' = "raising"
    /\ last' = Outcome("declare", name, var_type, PyNone, FALSE, msg)
    /\ UNCHANGED <<stvars, frames>>

Declared(value_expr, var_type, name) ==
    IF value_expr.t = "raise" THEN Rejected(name, var_type, value_expr.v)
    ELSE IF value_expr = PyNone THEN Rejected(name, var_type, ErrNoValue)
    ELSE Appended(declare_variable(ST, name, var_type, value_expr, FALSE),
                  DeclareStmt(var_type, name, value_expr, FALSE),
                  Outcome("declare", name, var_type, value_expr, FALSE,
                          declare_variable(ST, name, var_type, value_expr, FALSE).err))

\* the scalar declaration branch of parse_tokens, from the value tokens on
ParseValueDeclare(var_type, name, value_tokens) ==
    /\ CanParse
    /\ expr' = [called |-> TRUE, tree |-> NoTree, tokens |-> value_tokens,
                result |-> parse_expression(value_tokens)]
    /\ Declared(parse_value_expression(value_tokens), var_type, name)
    /\ UNCHANGED <<lmast, gen, pc, run, output, scan>>

ParseGoto(label_name) ==
    /\ CanParse
    /\ Conclude(Ok(ST), GotoStmt(label_name),
                Outcome("goto", label_name, "", PyNone, FALSE, ""))

\* tokenize_lumen_file raises before parse_tokens is called
TokenizeError ==
    /\ pstate = "parsing" /\ last = NoOutcome
    /\ pstate' = "aborted"
    /\ last' = Outcome("tokenize", "", "", PyNone, FALSE, ErrTokenize)
    /\ UNCHANGED <<stvars, frames, genvars>>

\* start() returns the AST to main
StartReturns ==
    /\ pstate = "done" /\ ~output.parsed
    /\ lmast' = frames[1].ast
    /\ output' = [output EXCEPT !.parsed = TRUE]
    /\ UNCHANGED <<stvars, parsevars, gen, pc, run, expr, scan>>

ExitParseError ==
    /\ pstate = "aborted" /\ output.exit = ""
    /\ output' = [output EXCEPT !.exit = "1"]
    /\ UNCHANGED <<stvars, parsevars, lmast, gen, pc, run, expr, scan>>

ValueRuns == {<<"1">>, <<"1", "+">>, <<"1", "+", "2">>, <<"(", ")">>}

NextMain ==
    \/ \E n \in Names, tokens \in ValueRuns : ParseValueDeclare("int", n, tokens)
    \/ ParseGoto("M")
    \/ ParseGlobal("int", "x", PyStr("1"))
    \/ TokenizeError
    \/ Abort
    \/ Finish
    \/ StartReturns
    \/ ExitParseError
    \/ Compile
    \/ \E written \in BOOLEAN : write_python_file(written)
    \/ ExitCompileError
    \/ ExitFileError
    \/ \E code \in {"0", "1"} : ExitAfterWrite(code)

SpecMain == Init /\ [][NextMain]_vars

\* C19: a declaration whose value expression the expression parser rejects
\* aborts the parse and appends no statement.
C19_NoRecovery ==
    [][pstate = "parsing" /\ pstate' \in {"parsing", "raising"}
       /\ last'.op = "declare" /\ expr'.result.t = "raise"
          => pstate' = "raising" /\ frames' = frames]_vars

\* some stage of the run has raised: tokenization or parsing (the parse is
\* aborted or unwinding) or code generation
StageFailed == pstate \in {"raising", "aborted"} \/ gen.status = "error"

\* C20: write_python_file is called only after tokenization, parsing and code
\* generation have completed without error; a run in which one of them raised
\* never calls it and can only end with exit status 1.
C20_WriteAfterSuccess ==
    /\ output.file # "none"
          => pstate = "done" /\ output.parsed /\ gen.status = "ok"
    /\ StageFailed => output.file = "none" /\ output.exit \in {"", "1"}

C20_Witness ==
    /\ pstate = "done" /\ Len(lmast) = 2
    /\ gen.status = "error" /\ gen.error = ErrUndefinedLabel
    /\ output.file = "none" /\ output.exit = "1"

-----------------------------------------------------------------------------
(* Function definitions and the statement that follows them *)

\* C21: a function body that is closed, whatever token follows its closing
\* brace (a semicolon or the next statement), becomes a fun statement of the
\* enclosing AST when the function name is new, and the parse goes on.
C21_FunThenStatement ==
    [][(last'.op = "exitfun"
            /\ declare_function(ST, Top.name, Top.params, Top.ast).err = "")
       => /\ pstate' = "parsing"
          /\ Len(frames') = Len(frames) - 1
          /\ frames'[Len(frames')].ast
                = Append(frames[Len(frames) - 1].ast,
                         FunStmt(Top.name, Top.params, Top.ast))]_vars

-----------------------------------------------------------------------------
(* Independence of compilation runs *)

\* the statements parsed so far in the current run, outermost frame first
RECURSIVE RunAst(_)
RunAst(fs) == IF Len(fs) = 0 THEN <<>> ELSE Head(fs).ast \o RunAst(Tail(fs))

\* the names declared static, and the names declared global, at any depth
RECURSIVE StaticNames(_)
StaticNames(ast) ==
    IF Len(ast) = 0 THEN {}
    ELSE (IF Head(ast).type = "declare" /\ Head(ast).is_static
          THEN {Head(ast).name} ELSE {})
         \cup StaticNames(Head(ast).body) \cup StaticNames(Tail(ast))

RECURSIVE GlobalNames(_)
GlobalNames(ast) ==
    IF Len(ast) = 0 THEN {}
    ELSE (IF Head(ast).type = "global" THEN {Head(ast).name} ELSE {})
         \cup GlobalNames(Head(ast).body) \cup GlobalNames(Tail(ast))

\* C22: a run starts with a new symbol table (no symbols, statics, globals or
\* functions, scope stack <<"global">>) and an empty AST, and while it parses
\* the table holds only what the statements of this run declared.
C22_RunsIndependent ==
    [][/\ last'.op = "start"
          => /\ [symbols |-> symbols', functions |-> functions',
                 scope_stack |-> scope_stack', static_vars |-> static_vars',
                 global_vars |-> global_vars'] = NewSymbolTable
             /\ frames' = <<TopFrame>>
       /\ pstate' = "parsing"
          => /\ DOMAIN static_vars' \subseteq StaticNames(RunAst(frames'))
             /\ DOMAIN global_vars' \subseteq GlobalNames(RunAst(frames'))
             /\ DOMAIN functions'
                   \subseteq {f.name : f \in FunsIn(RunAst(frames'))}
             /\ DOMAIN symbols'
                   \subseteq UNION {frames'[i].declared : i \in 1..Len(frames')}]_vars

\* a run has ended and the next one has just been started
C22_Witness ==
    /\ last.op = "start"
    /\ pstate = "parsing"
    /\ ST = NewSymbolTable
    /\ frames = <<TopFrame>>

-----------------------------------------------------------------------------
(* Statement kinds of the parser and of the generator *)

StructuredUnit == GotoTargets(lmast) = {} /\ Len(LabelsDeclared(lmast)) = 0

\* C23: an AST the parser returned, without labels and gotos, is never
\* rejected by the generator as holding an unknown statement type; a unit
\* with a top-level global declaration compiles.
C23_ParsedKindsAccepted ==
    CompileEnded /\ StructuredUnit
        => /\ gen.error # ErrUnknownStatement
           /\ (\A i \in 1..Len(lmast) : lmast[i].type \in {"global", "declare"})
                 => gen.status = "ok"

-----------------------------------------------------------------------------
(* parse_tokens on a token list (src/core/lmnast.py): the loop and its index *)

\* statements of a token source
MaxSource == 2

\* tokens[k] and tokens[a:b] of the code, which counts from 0
Tok(tokens, k) == tokens[k + 1]
Slice(tokens, a, b) == SubSeq(tokens, a + 1, b)

PrintStmt(args) == Stmt("print", "", "", PyNone, FALSE, args, <<>>)
ExprStmt(access_expr) == Stmt("expr", access_expr, "", PyNone, FALSE, <<>>, <<>>)

python_keywords ==
    {"and", "as", "assert", "break", "class", "continue", "def", "del", "elif",
     "else", "except", "finally", "for", "from", "global", "if", "import", "in",
     "is", "lambda", "nonlocal", "not", "or", "pass", "raise", "return", "try",
     "while", "with", "yield"}

ErrEmptyIdentifier == "Empty identifier"
ErrInvalidIdentifier == "Invalid identifier"
ErrReservedKeyword == "is a reserved Python keyword"

\* the message validate_identifier raises, "" when it returns
validate_identifier(name) ==
    IF name = "" THEN ErrEmptyIdentifier
    ELSE IF ~isidentifier(name) THEN ErrInvalidIdentifier
    ELSE IF name \in python_keywords THEN ErrReservedKeyword
    ELSE ""

\* re.match(r'^[a-zA-Z_][a-zA-Z0-9_]*', t): only the first character decides
MatchesIdentifierStart(t) == Len(t) > 0 /\ SubSeq(t, 1, 1) \in Letters

\* the for loop of find_matching_brace / _bracket / _paren from index k on;
\* -1 when the loop ends without a match
RECURSIVE MatchFrom(_, _, _, _, _)
MatchFrom(tokens, k, depth, open, close) ==
    IF k >= Len(tokens) THEN -1
    ELSE IF Tok(tokens, k) = open
    THEN MatchFrom(tokens, k + 1, depth + 1, open, close)
    ELSE IF Tok(tokens, k) = close
    THEN IF depth - 1 = 0 THEN k
         ELSE MatchFrom(tokens, k + 1, depth - 1, open, close)
    ELSE MatchFrom(tokens, k + 1, depth, open, close)

\* the index of the matching closer, -1 when LumenSyntaxError is raised
find_matching(tokens, start_index, open, close) ==
    IF start_index >= Len(tokens) THEN -1
    ELSE IF Tok(tokens, start_index) # open THEN -1
    ELSE MatchFrom(tokens, start_index, 0, open, close)

find_matching_brace(tokens, start_index) == find_matching(tokens, start_index, "{", "}")
find_matching_bracket(tokens, start_index) == find_matching(tokens, start_index, "[", "]")
find_matching_paren(tokens, start_index) == find_matching(tokens, start_index, "(", ")")

\* the while loop of parse_value_expression: the index it stops at
RECURSIVE ValueEnd(_, _, _, _)
ValueEnd(tokens, end_index, paren_depth, bracket_depth) ==
    IF end_index >= Len(tokens) THEN end_index
    ELSE LET token == Tok(tokens, end_index)
         IN IF token = "(" THEN ValueEnd(tokens, end_index + 1, paren_depth + 1, bracket_depth)
            ELSE IF token = ")" THEN ValueEnd(tokens, end_index + 1, paren_depth - 1, bracket_depth)
            ELSE IF token = "[" THEN ValueEnd(tokens, end_index + 1, paren_depth, bracket_depth + 1)
            ELSE IF token = "]" THEN ValueEnd(tokens, end_index + 1, paren_depth, bracket_depth - 1)
            ELSE IF token \in {";", "{", "}"} /\ paren_depth = 0 /\ bracket_depth = 0
            THEN end_index
            ELSE ValueEnd(tokens, end_index + 1, paren_depth, bracket_depth)

ErrExpectedValue == "Expected value expression"

\* parse_value_expression(tokens, start_index): the expression and end_index
value_expression_at(tokens, start_index) ==
    IF start_index >= Len(tokens)
    THEN [err |-> ErrExpectedValue, expression |-> PyNone, end_index |-> start_index]
    ELSE LET end_index == ValueEnd(tokens, start_index, 0, 0)
             value_expr == parse_value_expression(Slice(tokens, start_index, end_index))
         IN IF value_expr.t = "raise"
            THEN [err |-> value_expr.v, expression |-> PyNone, end_index |-> end_index]
            ELSE [err |-> "", expression |-> value_expr, end_index |-> end_index]

\* the comma-separated runs of a token list, empty runs dropped
RECURSIVE SplitCommas(_, _)
SplitCommas(tokens, current) ==
    IF Len(tokens) = 0 THEN IF Len(current) = 0 THEN <<>> ELSE <<current>>
    ELSE IF Head(tokens) = ","
    THEN (IF Len(current) = 0 THEN <<>> ELSE <<current>>) \o SplitCommas(Tail(tokens), <<>>)
    ELSE SplitCommas(Tail(tokens), Append(current, Head(tokens)))

\* expression_parser.parse_expression on every run: the texts, or the first error
RECURSIVE ParseEach(_)
ParseEach(token_runs) ==
    IF Len(token_runs) = 0 THEN [err |-> "", texts |-> <<>>]
    ELSE LET first == parse_expression(Head(token_runs))
             rest == ParseEach(Tail(token_runs))
         IN IF first.t = "raise" THEN [err |-> first.v, texts |-> <<>>]
            ELSE IF rest.err # "" THEN rest
            ELSE [err |-> "", texts |-> <<first.v>> \o rest.texts]

\* what one turn of the while loop of parse_tokens comes to: an exception, a
\* new index with the statement appended, or a recursive call on a body
NoBlock == [t |-> "", name |-> "", params |-> <<>>, condition |-> "",
            body_tokens |-> <<>>, body_end |-> 0]

Raised(st, msg) ==
    [kind |-> "raise", err |-> msg, to |-> 0, stmt |-> <<>>, st |-> st, block |-> NoBlock]
Advanced(st, to, stmt) ==
    [kind |-> "next", err |-> "", to |-> to, stmt |-> stmt, st |-> st, block |-> NoBlock]
Entered(st, block) ==
    [kind |-> "body", err |-> "", to |-> 0, stmt |-> <<>>, st |-> st, block |-> block]

Checked(r, to, stmt) ==
    IF r.err # "" THEN Raised(r.st, r.err) ELSE Advanced(r.st, to, <<stmt>>)

FollowedBySemicolon(tokens, k) == k < Len(tokens) /\ Tok(tokens, k) = ";"

\* parse_function_call and the semicolon after it
CallBranch(tokens, i, st) ==
    LET func_name == Tok(tokens, i)
        paren_end == find_matching_paren(tokens, i + 1)
        args == ParseEach(SplitCommas(Slice(tokens, i + 2, paren_end), <<>>))
    IN IF validate_identifier(func_name) # ""
       THEN Raised(st, validate_identifier(func_name))
       ELSE IF paren_end = -1 THEN Raised(st, "Error in function call")
       ELSE IF args.err # "" THEN Raised(st, args.err)
       ELSE IF FollowedBySemicolon(tokens, paren_end + 1)
       THEN Advanced(st, paren_end + 2, <<CallStmt(func_name, args.texts)>>)
       ELSE Raised(st, "Expected ';' after function call")

\* x++ / x--: the variable is not looked up
IncDecBranch(tokens, i, st) ==
    IF validate_identifier(Tok(tokens, i)) # ""
    THEN Raised(st, validate_identifier(Tok(tokens, i)))
    ELSE Advanced(st, i + 2, <<IF Tok(tokens, i + 1) = "++"
                               THEN IncStmt(Tok(tokens, i))
                               ELSE DecStmt(Tok(tokens, i))>>)

GlobalBranch(tokens, i, st) ==
    IF i + 1 >= Len(tokens) THEN Raised(st, "Expected variable name after 'global'")
    ELSE IF i + 3 >= Len(tokens) THEN Raised(st, "Incomplete global declaration")
    ELSE LET var_type == Tok(tokens, i + 1)
             name == Tok(tokens, i + 2)
             v == value_expression_at(tokens, i + 3)
             st1 == [st EXCEPT !.global_vars = Put(@, name, <<var_type, v.expression>>)]
         IN IF var_type \notin {"int", "str", "var", "ary", "dic", "bool"}
            THEN Raised(st, "Invalid type for global variable")
            ELSE IF validate_identifier(name) # ""
            THEN Raised(st, validate_identifier(name))
            ELSE IF v.err # "" THEN Raised(st, v.err)
            ELSE IF ~FollowedBySemicolon(tokens, v.end_index)
            THEN Raised(st, "Missing semicolon after global declaration")
            ELSE Checked(declare_variable(st1, name, var_type, v.expression, FALSE),
                         v.end_index + 1, GlobalStmt(var_type, name, v.expression))

\* parse_label
LabelBranch(tokens, i, st) ==
    LET label_name == SubSeq(Tok(tokens, i), 1, Len(Tok(tokens, i)) - 1)
    IN IF validate_identifier(label_name) # ""
       THEN Raised(st, validate_identifier(label_name))
       ELSE Advanced(st, i + 1, <<LabelStmt(label_name)>>)

\* parse_goto
GotoBranch(tokens, i, st) ==
    IF i + 1 >= Len(tokens) THEN Raised(st, "Expected label name after 'goto'")
    ELSE IF validate_identifier(Tok(tokens, i + 1)) # ""
    THEN Raised(st, validate_identifier(Tok(tokens, i + 1)))
    ELSE IF ~FollowedBySemicolon(tokens, i + 2)
    THEN Raised(st, "Expected ';' after goto statement")
    ELSE Advanced(st, i + 3, <<GotoStmt(Tok(tokens, i + 1))>>)

\* parse_array_literal: the element texts and the index after the bracket
parse_array_literal(tokens, start_index) ==
    LET bracket_end == find_matching_bracket(tokens, start_index)
        elements == ParseEach(SplitCommas(Slice(tokens, start_index + 1, bracket_end), <<>>))
    IN IF bracket_end = -1
       THEN [err |-> "Error in array literal", value |-> PyNone, next_i |-> 0]
       ELSE IF elements.err # "" THEN [err |-> elements.err, value |-> PyNone, next_i |-> 0]
       ELSE [err |-> "", value |-> PyList(Join(elements.texts)), next_i |-> bracket_end + 1]

\* the first index from k on that holds ';', or the length
RECURSIVE UpToSemicolon(_, _)
UpToSemicolon(tokens, k) ==
    IF k >= Len(tokens) \/ Tok(tokens, k) = ";" THEN k ELSE UpToSemicolon(tokens, k + 1)

\* the while loop of parse_dict_literal; current_key is <<>> for None
RECURSIVE DictPairs(_, _, _, _)
DictPairs(content_tokens, i, current_key, pairs) ==
    IF i >= Len(content_tokens)
    THEN IF Len(current_key) > 0 THEN [err |-> "Incomplete key:value pair", pairs |-> pairs]
         ELSE [err |-> "", pairs |-> pairs]
    ELSE LET token == Tok(content_tokens, i)
             stop == UpToSemicolon(content_tokens, i + 1)
             current_value == Slice(content_tokens, i + 1, stop)
         IN IF token = ":"
            THEN IF Len(current_key) = 0
                 THEN [err |-> "Unexpected ':' without key in dictionary", pairs |-> pairs]
                 ELSE IF Len(current_value) = 0
                 THEN [err |-> "Missing value after ':'", pairs |-> pairs]
                 ELSE IF parse_expression(current_value).t = "raise"
                 THEN [err |-> parse_expression(current_value).v, pairs |-> pairs]
                 ELSE IF stop >= Len(content_tokens)
                 THEN [err |-> "Expected ';' after dictionary value", pairs |-> pairs]
                 ELSE DictPairs(content_tokens, stop + 1, <<>>,
                                Append(pairs, current_key[1] \o ": "
                                              \o parse_expression(current_value).v))
            ELSE IF token = ";"
            THEN [err |-> "Unexpected ';' without key:value pair", pairs |-> pairs]
            ELSE IF Len(current_key) > 0
            THEN [err |-> "Expected ':' after key", pairs |-> pairs]
            ELSE DictPairs(content_tokens, i + 1, <<token>>, pairs)

parse_dict_literal(tokens, start_index) ==
    LET brace_end == find_matching_brace(tokens, start_index)
        r == DictPairs(Slice(tokens, start_index + 1, brace_end), 0, <<>>, <<>>)
    IN IF brace_end = -1
       THEN [err |-> "Error in dictionary literal", value |-> PyNone, next_i |-> 0]
       ELSE IF r.err # "" THEN [err |-> r.err, value |-> PyNone, next_i |-> 0]
       ELSE [err |-> "", value |-> PyDict(Join(r.pairs)), next_i |-> brace_end + 1]

\* ary name [ ... ] ; and dic name { ... } ;
LiteralDeclaration(tokens, lit, var_type, name, is_static, st) ==
    IF lit.err # "" THEN Raised(st, lit.err)
    ELSE IF ~FollowedBySemicolon(tokens, lit.next_i)
    THEN Raised(st, "Expected ';' after literal declaration")
    ELSE Checked(declare_variable(st, name, var_type, lit.value, is_static),
                 lit.next_i + 1, DeclareStmt(var_type, name, lit.value, is_static))

ScalarDeclaration(tokens, v, var_type, name, is_static, st) ==
    IF v.err # "" THEN Raised(st, v.err)
    ELSE IF ~FollowedBySemicolon(tokens, v.end_index)
    THEN Raised(st, "Missing semicolon after variable declaration")
    ELSE IF v.expression = PyNone THEN Raised(st, ErrNoValue)
    ELSE Checked(declare_variable(st, name, var_type, v.expression, is_static),
                 v.end_index + 1, DeclareStmt(var_type, name, v.expression, is_static))

\* the declaration branch from the type token at index i on
Declaration(tokens, i, var_type, is_static, st) ==
    IF i + 1 >= Len(tokens) THEN Raised(st, "Expected variable name")
    ELSE LET name == Tok(tokens, i + 1)
         IN IF validate_identifier(name) # "" THEN Raised(st, validate_identifier(name))
            ELSE IF var_type = "ary" /\ i + 2 < Len(tokens) /\ Tok(tokens, i + 2) = "["
            THEN LiteralDeclaration(tokens, parse_array_literal(tokens, i + 2),
                                    var_type, name, is_static, st)
            ELSE IF var_type = "dic" /\ i + 2 < Len(tokens) /\ Tok(tokens, i + 2) = "{"
            THEN LiteralDeclaration(tokens, parse_dict_literal(tokens, i + 2),
                                    var_type, name, is_static, st)
            ELSE ScalarDeclaration(tokens, value_expression_at(tokens, i + 2),
                                   var_type, name, is_static, st)

\* 'static' moves the index on to the type token
DeclareBranch(tokens, i, st) ==
    IF Tok(tokens, i) = "static"
    THEN IF i + 1 >= Len(tokens) THEN Raised(st, "Expected type after 'static'")
         ELSE IF Tok(tokens, i + 1) \notin {"int", "str", "var", "ary", "dic"}
         THEN Raised(st, "Invalid type after 'static'")
         ELSE Declaration(tokens, i + 1, Tok(tokens, i + 1), TRUE, st)
    ELSE Declaration(tokens, i, Tok(tokens, i), FALSE, st)

NotIndexable ==
    {"if", "while", "fun", "print", "return", "int", "str", "var", "static", "ary", "dic"}

\* name [ index ] as one text; index_expr is "" for empty brackets
Access(tokens, k, bracket_end) ==
    LET inner_tokens == Slice(tokens, k + 2, bracket_end)
        inner == IF Len(inner_tokens) = 0 THEN PyStr("") ELSE parse_expression(inner_tokens)
    IN IF inner.t = "raise" THEN [err |-> inner.v, text |-> ""]
       ELSE [err |-> "", text |-> Tok(tokens, k) \o "[" \o inner.v \o "]"]

\* the inner while loop of the print branch
RECURSIVE PrintArgs(_, _, _)
PrintArgs(tokens, i, args) ==
    IF i >= Len(tokens) \/ Tok(tokens, i) = ";" THEN [err |-> "", args |-> args, i |-> i]
    ELSE IF /\ i + 1 < Len(tokens) /\ Tok(tokens, i + 1) = "["
            /\ Tok(tokens, i) \notin NotIndexable
    THEN LET bracket_end == find_matching_bracket(tokens, i + 1)
             access == Access(tokens, i, bracket_end)
         IN IF bracket_end = -1
            THEN [err |-> "Error in array/dict access", args |-> args, i |-> i]
            ELSE IF access.err # "" THEN [err |-> access.err, args |-> args, i |-> i]
            ELSE PrintArgs(tokens, bracket_end + 1, Append(args, access.text))
    ELSE PrintArgs(tokens, i + 1, Append(args, Tok(tokens, i)))

PrintBranch(tokens, i, st) ==
    LET t == Tok(tokens, i)
        r == PrintArgs(tokens, i + 1,
                       IF Len(t) > 5 THEN <<SubSeq(t, 7, Len(t))>> ELSE <<>>)
    IN IF r.err # "" THEN Raised(st, r.err)
       ELSE IF r.i >= Len(tokens) THEN Raised(st, "Missing semicolon after print statement")
       ELSE IF Len(r.args) = 0 THEN Raised(st, "Print statement cannot be empty")
       ELSE Advanced(st, r.i + 1, <<PrintStmt(r.args)>>)

\* the if/while branch up to the recursive call; n is len(ast)
BlockBranch(tokens, i, st, n) ==
    LET t == Tok(tokens, i)
        paren_start == i + 1
        paren_end == find_matching_paren(tokens, paren_start)
        condition_tokens == Slice(tokens, paren_start + 1, paren_end)
        condition == parse_expression(condition_tokens)
        brace_start == paren_end + 1
        body_end == find_matching_brace(tokens, brace_start)
    IN IF paren_start >= Len(tokens) \/ Tok(tokens, paren_start) # "("
       THEN Raised(st, "Expected '(' after if/while")
       ELSE IF paren_end = -1 THEN Raised(st, "Error in condition")
       ELSE IF Len(condition_tokens) = 0 THEN Raised(st, "Empty condition")
       ELSE IF condition.t = "raise" THEN Raised(st, condition.v)
       ELSE IF brace_start >= Len(tokens) \/ Tok(tokens, brace_start) # "{"
       THEN Raised(st, "Expected '{' after condition")
       ELSE IF body_end = -1 THEN Raised(st, "Error in body")
       ELSE Entered(enter_scope(st, ScopeName(t, n)),
                    [t |-> t, name |-> "", params |-> <<>>, condition |-> condition.v,
                     body_tokens |-> Slice(tokens, brace_start + 1, body_end),
                     body_end |-> body_end])

\* the parameter names of a fun header, each validated
RECURSIVE ParamNames(_)
ParamNames(token_runs) ==
    IF Len(token_runs) = 0 THEN [err |-> "", params |-> <<>>]
    ELSE LET param_name == JoinSpace(Head(token_runs))
             rest == ParamNames(Tail(token_runs))
         IN IF validate_identifier(param_name) # ""
            THEN [err |-> validate_identifier(param_name), params |-> <<>>]
            ELSE IF rest.err # "" THEN rest
            ELSE [err |-> "", params |-> <<param_name>> \o rest.params]

\* the fun branch up to the recursive call: scope entered, parameters declared
FunBranch(tokens, i, st) ==
    LET name == Tok(tokens, i + 1)
        args_start == i + 2
        args_end == find_matching_paren(tokens, args_start)
        p == ParamNames(SplitCommas(Slice(tokens, args_start + 1, args_end), <<>>))
        body_start == args_end + 1
        body_end == find_matching_brace(tokens, body_start)
        r == declare_parameters(Ok(enter_scope(st, name)), p.params)
    IN IF i + 1 >= Len(tokens) THEN Raised(st, "Expected function name after 'fun'")
       ELSE IF validate_identifier(name) # "" THEN Raised(st, validate_identifier(name))
       ELSE IF args_start >= Len(tokens) \/ Tok(tokens, args_start) # "("
       THEN Raised(st, "Expected '(' after function name")
       ELSE IF args_end = -1 THEN Raised(st, "Error in function parameters")
       ELSE IF p.err # "" THEN Raised(st, p.err)
       ELSE IF body_start >= Len(tokens) \/ Tok(tokens, body_start) # "{"
       THEN Raised(st, "Expected '{' after function parameters")
       ELSE IF body_end = -1 THEN Raised(st, "Error in function body")
       ELSE IF r.err # "" THEN Raised(exit_scope(r.st), r.err)
       ELSE Entered(r.st,
                    [t |-> "fun", name |-> name, params |-> p.params, condition |-> "",
                     body_tokens |-> Slice(tokens, body_start + 1, body_end),
                     body_end |-> body_end])

ErrReturnOutside == "Return statement outside of function"

\* the return branch: refused when the innermost scope is 'global'
ReturnBranch(tokens, i, st) ==
    LET t == Tok(tokens, i)
        v == value_expression_at(tokens, i + 1)
    IN IF current_scope(st) = "global" THEN Raised(st, ErrReturnOutside)
       ELSE IF Len(t) > 6
       THEN IF ~FollowedBySemicolon(tokens, i + 1)
            THEN Raised(st, "Expected ';' after return statement")
            ELSE Advanced(st, i + 2, <<ReturnStmt(PyStr(SubSeq(t, 7, Len(t))))>>)
       ELSE IF i + 1 < Len(tokens) /\ Tok(tokens, i + 1) # ";"
       THEN IF v.err # "" THEN Raised(st, v.err)
            ELSE IF ~FollowedBySemicolon(tokens, v.end_index)
            THEN Raised(st, "Expected ';' after return value")
            ELSE Advanced(st, v.end_index + 1, <<ReturnStmt(v.expression)>>)
       ELSE IF ~FollowedBySemicolon(tokens, i + 1)
       THEN Raised(st, "Expected ';' after return statement")
       ELSE Advanced(st, i + 2, <<ReturnStmt(PyNone)>>)

\* name [ index ] = value ;  and  name [ index ] ;
IndexedBranch(tokens, i, st) ==
    LET name == Tok(tokens, i)
        bracket_end == find_matching_bracket(tokens, i + 1)
        access == Access(tokens, i, bracket_end)
        v == value_expression_at(tokens, bracket_end + 2)
    IN IF bracket_end = -1 THEN Raised(st, "Error in array/dict assignment")
       ELSE IF access.err # "" THEN Raised(st, access.err)
       ELSE IF bracket_end + 1 >= Len(tokens)
       THEN Raised(st, "Expected '=' or ';' after bracket expression")
       ELSE IF Tok(tokens, bracket_end + 1) = "="
       THEN IF v.err # "" THEN Raised(st, v.err)
            ELSE IF ~FollowedBySemicolon(tokens, v.end_index)
            THEN Raised(st, "Expected ';' after assignment")
            ELSE Checked(assign_variable(st, name, v.expression), v.end_index + 1,
                         AssignStmt(access.text, v.expression))
       ELSE IF Tok(tokens, bracket_end + 1) # ";"
       THEN Raised(st, "Expected ';' after expression")
       ELSE Advanced(st, bracket_end + 2, <<ExprStmt(access.text)>>)

\* name = value ;  and  name value ;
PlainAssignBranch(tokens, i, st) ==
    LET name == Tok(tokens, i)
        v == value_expression_at(tokens, IF Tok(tokens, i + 1) = "=" THEN i + 2 ELSE i + 1)
    IN IF v.err # "" THEN Raised(st, v.err)
       ELSE IF ~FollowedBySemicolon(tokens, v.end_index)
       THEN Raised(st, "Expected ';' after assignment")
       ELSE IF v.expression \in {PyNone, PyStr("")}
       THEN Raised(st, "Empty value in assignment")
       ELSE Checked(assign_variable(st, name, v.expression), v.end_index + 1,
                    AssignStmt(name, v.expression))

AssignBranch(tokens, i, st) ==
    IF validate_identifier(Tok(tokens, i)) # ""
    THEN Raised(st, validate_identifier(Tok(tokens, i)))
    ELSE IF Tok(tokens, i + 1) = "[" THEN IndexedBranch(tokens, i, st)
    ELSE PlainAssignBranch(tokens, i, st)

StatementWords == {"int", "str", "var", "static", "if", "while", "fun", "return", "print"}

\* the guard of the assignment branch
IsAssignment(tokens, i) ==
    /\ MatchesIdentifierStart(Tok(tokens, i))
    /\ i + 1 < Len(tokens)
    /\ \/ Tok(tokens, i + 1) \in {"=", "["}
       \/ /\ Tok(tokens, i + 1) \notin {"++", "--", "("}
          /\ \A w \in StatementWords : ~startswith(Tok(tokens, i + 1), w)

\* the guard of the call branch: 'return' is not among the excluded words
IsCall(tokens, i) ==
    /\ i + 1 < Len(tokens) /\ Tok(tokens, i + 1) = "("
    /\ Tok(tokens, i) \notin {"if", "while", "fun", "print"}
    /\ ~startswith(Tok(tokens, i), "print")

\* one turn of the while loop: the branch chosen by tokens[i] and tokens[i+1]
Turn(tokens, i, st, n) ==
    LET t == Tok(tokens, i)
    IN IF t = "" THEN Advanced(st, i + 1, <<>>)
       ELSE IF IsCall(tokens, i) THEN CallBranch(tokens, i, st)
       ELSE IF i + 1 < Len(tokens) /\ Tok(tokens, i + 1) \in {"++", "--"}
       THEN IncDecBranch(tokens, i, st)
       ELSE IF t = "global" THEN GlobalBranch(tokens, i, st)
       ELSE IF endswith(t, ":") THEN LabelBranch(tokens, i, st)
       ELSE IF t = "goto" THEN GotoBranch(tokens, i, st)
       ELSE IF t \in {"int", "str", "var", "static", "ary", "dic", "bool"}
       THEN DeclareBranch(tokens, i, st)
       ELSE IF startswith(t, "print") THEN PrintBranch(tokens, i, st)
       ELSE IF t \in {"if", "while"} THEN BlockBranch(tokens, i, st, n)
       ELSE IF t = "fun" THEN FunBranch(tokens, i, st)
       ELSE IF startswith(t, "return") THEN ReturnBranch(tokens, i, st)
       ELSE IF IsAssignment(tokens, i) THEN AssignBranch(tokens, i, st)
       ELSE IF t = ";" THEN Advanced(st, i + 1, <<>>)
       ELSE IF t \in {"{", "}"} THEN Raised(st, "Unexpected brace")
       ELSE IF t \in {"(", ")"} THEN Raised(st, "Unexpected parenthesis")
       ELSE Raised(st, "Unexpected token")

\* one active while loop of parse_tokens: its token list, its index, and for
\* a body the block whose branch called it
Loop(tokens, i, block) == [tokens |-> tokens, i |-> i, block |-> block]

TopLoop == scan.loops[Len(scan.loops)]

AtToken == pstate = "parsing" /\ scan.loops # <<>> /\ TopLoop.i < Len(TopLoop.tokens)
AtEnd == pstate = "parsing" /\ scan.loops # <<>> /\ TopLoop.i >= Len(TopLoop.tokens)

MoveTop(loops, to) == [loops EXCEPT ![Len(loops)].i = to]

RECURSIVE AppendAll(_, _)
AppendAll(fs, stmts) ==
    IF Len(stmts) = 0 THEN fs ELSE AppendAll(AppendTop(fs, Head(stmts)), Tail(stmts))

\* a turn of the loop that ends in this invocation: i is set, or the
\* exception leaves the loop
ParseTurn ==
    /\ AtToken
    /\ \E r \in {Turn(TopLoop.tokens, TopLoop.i, ST, Len(Top.ast))} :
          /\ r.kind # "body"
          /\ SetST(r.st)
          /\ last' = Outcome("turn", "", "", PyNone, FALSE, r.err)
          /\ IF r.kind = "next"
             THEN /\ frames' = Own(AppendAll(frames, r.stmt), r.st)
                  /\ pstate' = "parsing"
                  /\ scan' = [scan EXCEPT !.loops = MoveTop(@, r.to)]
             ELSE /\ frames' = Own(frames, r.st)
                  /\ pstate' = "raising"
                  /\ UNCHANGED scan
    /\ UNCHANGED <<lmast, gen, pc, run, output, expr>>

\* a turn that reaches parse_tokens(body_tokens): a new loop at index 0
ParseBody ==
    /\ AtToken
    /\ \E r \in {Turn(TopLoop.tokens, TopLoop.i, ST, Len(Top.ast))} :
          /\ r.kind = "body"
          /\ SetST(r.st)
          /\ last' = Outcome("enter", current_scope(r.st), "", PyNone, FALSE, "")
          /\ frames' = Own(Append(frames, Frame(r.block.t, r.block.name, r.block.params,
                                                current_scope(r.st), scope_stack)), r.st)
          /\ scan' = [scan EXCEPT !.loops = Append(@, Loop(r.block.body_tokens, 0, r.block))]
    /\ pstate' = "parsing"
    /\ UNCHANGED <<lmast, gen, pc, run, output, expr>>

BlockOf(block, body_ast) ==
    IF block.t = "fun" THEN FunStmt(block.name, block.params, body_ast)
    ELSE BlockStmt(block.t, block.condition, body_ast)

\* the body's loop ran off its tokens: the scope is left, the semicolon after
\* the closing brace is required, and the caller's index moves past it
ParseBodyEnd ==
    /\ AtEnd
    /\ Len(scan.loops) > 1
    /\ \E r \in {IF TopLoop.block.t = "fun"
                 THEN declare_function(ST, TopLoop.block.name, TopLoop.block.params, Top.ast)
                 ELSE Ok(ST)} :
       \E next_token_index \in {TopLoop.block.body_end + 1} :
       \E err \in {IF r.err # "" THEN r.err
                   ELSE IF FollowedBySemicolon(scan.loops[Len(scan.loops) - 1].tokens,
                                               next_token_index)
                   THEN "" ELSE "Expected ';' after block"} :
          /\ SetST(exit_scope(r.st))
          /\ last' = Outcome("exit", Top.scope, "", PyNone, FALSE, err)
          /\ IF err = ""
             THEN /\ frames' = AppendTop(Pop(frames), BlockOf(TopLoop.block, Top.ast))
                  /\ pstate' = "parsing"
                  /\ scan' = [scan EXCEPT !.loops = MoveTop(Pop(@), next_token_index + 1)]
             ELSE /\ frames' = Pop(frames)
                  /\ pstate' = "raising"
                  /\ scan' = [scan EXCEPT !.loops = Pop(@)]
    /\ UNCHANGED <<lmast, gen, pc, run, output, expr>>

\* the exception passes through the finally clause of an enclosing block
LoopUnwind ==
    /\ pstate = "raising"
    /\ Len(frames) > 1
    /\ SetST(exit_scope(ST))
    /\ frames' = Pop(frames)
    /\ scan' = [scan EXCEPT !.loops = Pop(@)]
    /\ last' = Outcome("unwind", Top.scope, "", PyNone, FALSE, last.err)
    /\ pstate' = "raising"
    /\ UNCHANGED <<lmast, gen, pc, run, output, expr>>

\* the outermost loop ran off its tokens: parse_tokens returns the AST
ParseEnd == AtEnd /\ Finish

-----------------------------------------------------------------------------
(* compile_to_python as a walk over the AST: which statements each pass visits *)

\* the statement at a path of 1-based positions, outermost first
RECURSIVE StmtAt(_, _)
StmtAt(ast, path) ==
    IF Len(path) = 1 THEN ast[path[1]] ELSE StmtAt(ast[path[1]].body, Tail(path))

RECURSIVE PathsOf(_, _)
PathsOf(ast, prefix) ==
    UNION {{Append(prefix, k)} \cup PathsOf(ast[k].body, Append(prefix, k)) : k \in 1..Len(ast)}

Visit(pass, path) == [pass |-> pass, path |-> path]

\* a loop over a statement list: one visit per statement, in order
Each(pass, prefix, statements) ==
    [k \in 1..Len(statements) |-> Visit(pass, Append(prefix, k))]

Body(pass, path, stmt) == Each(pass, path, stmt.body)

\* the passes of compile_to_python over the top-level list, in program order
Passes(ast) ==
    <<"collect", "libraries", "statics">>
    \o (IF contains_goto(ast) \/ collect_labels_and_gotos(ast).gotos # <<>>
           \/ DOMAIN collect_labels_and_gotos(ast).labels # {}
        THEN <<"functions", "label_map", "arms">>
        ELSE <<"statements">>)

RECURSIVE TopVisits(_, _)
TopVisits(passes, ast) ==
    IF Len(passes) = 0 THEN <<>>
    ELSE Each(Head(passes), <<>>, ast) \o TopVisits(Tail(passes), ast)

\* the arm of a goto followed to its label, as an interpreter would
goto_arm_followed(ast, stmt) ==
    IF \E k \in 1..Len(ast) : ast[k].type = "label" /\ ast[k].name = stmt.name
    THEN Each("arms", <<>>, ast)
    ELSE <<>>

\* the arm of a goto assigns pc and visits no statement
goto_arm(ast, stmt) == <<>>

\* def name(params): the global line, then the body
FunVisits(pass, path, stmt) ==
    Body("global_vars", path, stmt) \o Body(pass, path, stmt)

\* the visits a visit leads to before the loop it belongs to goes on
Nested(ast, v) ==
    LET stmt == StmtAt(ast, v.path)
    IN IF v.pass = "collect"
       THEN IF stmt.type \in {"if", "while", "fun"} THEN Body("collect", v.path, stmt) ELSE <<>>
       ELSE IF v.pass \in {"libraries", "statics", "label_map"} THEN <<>>
       ELSE IF v.pass = "contains_goto"
       THEN IF stmt.type \in {"if", "while"} THEN Body("contains_goto", v.path, stmt) ELSE <<>>
       ELSE IF v.pass = "global_vars" THEN Body("global_vars", v.path, stmt)
       ELSE IF v.pass = "functions"
       THEN IF stmt.type = "fun"
            THEN Body("contains_goto", v.path, stmt) \o FunVisits("statements", v.path, stmt)
            ELSE <<>>
       ELSE IF v.pass = "arms"
       THEN IF stmt.type \in {"fun", "label"} THEN <<>>
            ELSE IF stmt.type = "goto" THEN goto_arm(ast, stmt)
            ELSE IF stmt.type \in {"if", "while"} THEN Body("statements", v.path, stmt)
            ELSE <<>>
       ELSE IF stmt.type \in {"if", "while"} THEN Body("statements", v.path, stmt)
       ELSE IF stmt.type = "fun" THEN FunVisits("statements", v.path, stmt)
       ELSE <<>>

PassNames ==
    {"collect", "libraries", "statics", "functions", "label_map", "arms",
     "statements", "contains_goto", "global_vars"}

\* main() calls compile_to_python on the AST start() returned
StartWalk ==
    /\ output.parsed /\ output.exit = ""
    /\ scan.walk = "idle"
    /\ scan' = [scan EXCEPT !.walk = "walking",
                            !.work = TopVisits(Passes(lmast), lmast),
                            !.visits = [p \in PathsOf(lmast, <<>>) |-> 0]]
    /\ UNCHANGED <<stvars, parsevars, lmast, gen, pc, run, output, expr>>

\* the next statement of the innermost loop is handled
WalkStep ==
    /\ scan.walk = "walking"
    /\ scan.work # <<>>
    /\ scan' = [scan EXCEPT !.work = Nested(lmast, Head(scan.work)) \o Tail(@),
                            !.visits[Head(scan.work).path] = @ + 1]
    /\ UNCHANGED <<stvars, parsevars, lmast, gen, pc, run, output, expr>>

\* the last loop ended: compile_to_python returns or has raised
WalkEnd ==
    /\ scan.walk = "walking"
    /\ scan.work = <<>>
    /\ gen.status = "idle"
    /\ gen' = compile_to_python(lmast)
    /\ scan' = [scan EXCEPT !.walk = "ended"]
    /\ UNCHANGED <<stvars, parsevars, lmast, pc, run, output, expr>>

-----------------------------------------------------------------------------
(* Token sources *)

Statements ==
    { <<"int", "x", "0", ";">>,
      <<"x", "=", "x", "+", "1", ";">>,
      <<"int", "y", "x", "+", "3", ";">>,
      <<"static", "int", "s", "1", ";">>,
      <<"s", "++", ";">>,
      <<"s", "--", ";">>,
      <<"ary", "a", "[", "1", ",", "2", "]", ";">>,
      <<"a", "[", "0", "]", "=", "5", ";">>,
      <<"dic", "d", "{", "k", ":", "1", ";", "}", ";">>,
      <<"L:">>,
      <<"goto", "L", ";">>,
      <<"print", "x", ";">>,
      <<"f", "(", "1", ",", "2", ")", ";">>,
      <<";">>,
      <<"}">>,
      <<"return", "1", ";">>,
      <<"if", "(", "x", "<", "1", ")", "{", "goto", "L", ";", "}", ";">>,
      <<"if", "(", "1", "==", "1", ")", "{", "return", "1", ";", "}", ";">>,
      <<"while", "(", "1", "==", "1", ")", "{", "return", "1", ";", "}", ";">>,
      <<"if", "(", "x", "<", "1", ")", "{", "int", "y", "1", ";", "}">>,
      <<"fun", "f", "(", "a", ",", "b", ")", "{", "return", "(", "a", "+", "b", ")", ";", "}", ";">>,
      <<"fun", "f", "(", "a", ",", "b", ")", "{", "return", "a", "+", "b", ";", "}", ";">>,
      <<"fun", "f", "(", "a", ",", "b", ")", "{", "return", "a", "+", "b", ";", "}">>,
      <<"fun", "g", "(", ")", "{", "if", "(", "1", "==", "1", ")", "{", "return", ";", "}", ";", "}", ";">> }

RECURSIVE Sources(_)
Sources(size) ==
    IF size = 0 THEN {<<>>}
    ELSE Sources(size - 1) \cup {s \o t : s \in Sources(size - 1), t \in Statements}

InitTokens ==
    /\ SetSTInit
    /\ frames = <<TopFrame>>
    /\ pstate = "parsing"
    /\ last = NoOutcome
    /\ lmast = <<>>
    /\ gen = NoGen
    /\ pc = 0
    /\ run = NoRun
    /\ output = NoOutput
    /\ expr = NoExpr
    /\ \E tokens \in Sources(MaxSource) :
          scan = [NoScan EXCEPT !.loops = <<Loop(tokens, 0, NoBlock)>>]

NextTokens ==
    \/ ParseTurn
    \/ ParseBody
    \/ ParseBodyEnd
    \/ LoopUnwind
    \/ Abort
    \/ ParseEnd
    \/ StartReturns
    \/ StartWalk
    \/ WalkStep
    \/ WalkEnd

SpecTokens == InitTokens /\ [][NextTokens]_vars

-----------------------------------------------------------------------------
(* Termination of the parse and of code generation *)

Depth == Len(scan.loops)

\* the loops below the innermost one stand still at the index they called from
OuterLoopsKept(n) == \A k \in 1..n : scan'.loops[k] = scan.loops[k]

\* a turn completed in the innermost loop: its index went strictly forward
TurnAdvanced ==
    /\ Len(scan'.loops) = Depth
    /\ OuterLoopsKept(Depth - 1)
    /\ scan'.loops[Depth].tokens = TopLoop.tokens
    /\ scan'.loops[Depth].i > TopLoop.i
    /\ scan'.loops[Depth].i <= Len(TopLoop.tokens)

\* a block's body is handed to a new loop: a strictly shorter list, all of it
\* ahead of the caller's index
BodyEntered ==
    /\ Len(scan'.loops) = Depth + 1
    /\ OuterLoopsKept(Depth)
    /\ scan'.loops[Depth + 1].i = 0
    /\ LET block == scan'.loops[Depth + 1].block
       IN /\ TopLoop.i < block.body_end - Len(block.body_tokens)
          /\ block.body_end < Len(TopLoop.tokens)
          /\ block.body_tokens
               = Slice(TopLoop.tokens, block.body_end - Len(block.body_tokens), block.body_end)

\* a body returned: the caller's index moves past the closing brace
BodyLeft ==
    /\ Len(scan'.loops) = Depth - 1
    /\ OuterLoopsKept(Depth - 2)
    /\ scan'.loops[Depth - 1].tokens = scan.loops[Depth - 1].tokens
    /\ scan'.loops[Depth - 1].i > TopLoop.block.body_end
    /\ scan'.loops[Depth - 1].i <= Len(scan.loops[Depth - 1].tokens)

VisitLimit(path) == Cardinality(PassNames) * Len(path)

\* C24: every turn of the parse_tokens loop raises or moves the index of its
\* loop strictly forward, a body being parsed by a loop over a strictly
\* shorter token list ahead of that index; and the passes of code generation
\* visit each statement of the AST a bounded number of times, a goto leading
\* to no visit of its label, so that compilation ends.
C24_CompilationTerminates ==
    [][/\ (pstate = "parsing" /\ scan.loops # <<>> /\ last' # last)
            => \/ pstate' = "raising"
               \/ pstate' = "done" /\ Depth = 1 /\ TopLoop.i >= Len(TopLoop.tokens)
                    /\ UNCHANGED scan
               \/ pstate' = "parsing" /\ (TurnAdvanced \/ BodyEntered \/ BodyLeft)
       /\ scan'.walk = "walking"
            => /\ \A path \in DOMAIN scan'.visits : scan'.visits[path] <= VisitLimit(path)
               /\ scan.walk = "walking"
                    => \A v \in Range(scan'.work) :
                          v \in Range(scan.work) \/ Len(v.path) > Len(Head(scan.work).path)
      ]_vars

JumpsBack(ast, k, j) ==
    /\ ast[k].type = "label"
    /\ ast[j].type = "if" /\ Len(ast[j].body) > 0
    /\ ast[j].body[1].type = "goto" /\ ast[j].body[1].name = ast[k].name

\* a label followed by an if whose body jumps back to it was parsed from
\* tokens and every pass over it has ended
C24_Witness ==
    /\ scan.walk = "ended"
    /\ \E k, j \in 1..Len(lmast) : k < j /\ JumpsBack(lmast, k, j)
    /\ \A path \in DOMAIN scan.visits : scan.visits[path] > 0

-----------------------------------------------------------------------------
(* Statements the parser is to accept or to refuse *)

\* the innermost loop stands at a token run that ends the list of tokens
\* from its index on with the given statement
StandsAt(statement) ==
    /\ AtToken
    /\ TopLoop.i + Len(statement) <= Len(TopLoop.tokens)
    /\ Slice(TopLoop.tokens, TopLoop.i, TopLoop.i + Len(statement)) = statement

LastAppended(fs) == fs[Len(fs)].ast[Len(fs[Len(fs)].ast)]

\* the turn appended one statement of the given type and name
Accepted(type, name) ==
    /\ pstate' = "parsing"
    /\ last'.err = ""
    /\ Len(frames') = Len(frames)
    /\ Len(frames'[Len(frames')].ast) = Len(Top.ast) + 1
    /\ LastAppended(frames').type = type
    /\ LastAppended(frames').name = name

IntSymbol(name) ==
    HasTarget(name) /\ Target(name).var_type = "int" /\ name \notin DOMAIN static_vars

ArithmeticOperators == {"+", "-", "*", "/", "%"}

\* operand, operator, operand, ... over int literals and int variables
IntArithmetic(value_tokens) ==
    /\ Len(value_tokens) >= 3
    /\ Len(value_tokens) % 2 = 1
    /\ \A k \in 1..Len(value_tokens) :
          IF k % 2 = 1
          THEN IntParses(value_tokens[k]) \/ IntSymbol(value_tokens[k])
          ELSE value_tokens[k] \in ArithmeticOperators

\* name = <int arithmetic> ;  with name an int variable
AssignsIntArithmetic ==
    /\ AtToken
    /\ TopLoop.i + 1 < Len(TopLoop.tokens)
    /\ IntSymbol(Tok(TopLoop.tokens, TopLoop.i))
    /\ Tok(TopLoop.tokens, TopLoop.i + 1) = "="
    /\ LET end_index == ValueEnd(TopLoop.tokens, TopLoop.i + 2, 0, 0)
       IN /\ FollowedBySemicolon(TopLoop.tokens, end_index)
          /\ IntArithmetic(Slice(TopLoop.tokens, TopLoop.i + 2, end_index))

\* int name <int arithmetic> ;  with name not yet declared in this scope
DeclaresIntArithmetic ==
    /\ AtToken
    /\ TopLoop.i + 1 < Len(TopLoop.tokens)
    /\ Tok(TopLoop.tokens, TopLoop.i) = "int"
    /\ validate_identifier(Tok(TopLoop.tokens, TopLoop.i + 1)) = ""
    /\ FullName(current_scope(ST), Tok(TopLoop.tokens, TopLoop.i + 1)) \notin DOMAIN symbols
    /\ LET end_index == ValueEnd(TopLoop.tokens, TopLoop.i + 2, 0, 0)
       IN /\ FollowedBySemicolon(TopLoop.tokens, end_index)
          /\ IntArithmetic(Slice(TopLoop.tokens, TopLoop.i + 2, end_index))

\* C25: an assignment of an arithmetic expression over int literals and int
\* variables to an int variable is accepted and appends an assign statement,
\* as the declaration of an int variable with such a value is accepted.
C25_IntExpressionAssigned ==
    [][/\ AssignsIntArithmetic => Accepted("assign", Tok(TopLoop.tokens, TopLoop.i))
       /\ DeclaresIntArithmetic => Accepted("declare", Tok(TopLoop.tokens, TopLoop.i + 1))
      ]_vars

\* every line of target text the generator produced
EmittedTexts ==
    Range(Texts(gen.code)) \cup Range(Texts(gen.funs))
        \cup UNION {Range(gen.arms[k]) : k \in 1..Len(gen.arms)}

\* the statement at j increments or decrements the static declared at k < j
ModifiesStatic(ast, k, j) ==
    /\ k < j
    /\ ast[k].type = "declare" /\ ast[k].is_static
    /\ ast[j].type \in {"inc", "dec"} /\ ast[j].name = ast[k].name

StepText(stmt) == stmt.name \o (IF stmt.type = "inc" THEN " += 1" ELSE " -= 1")

\* C26: no accepted program modifies a static after its declaration: x++ or
\* x-- on a name declared static earlier is refused by the parser or by the
\* code generator and never emitted as x += 1 / x -= 1.
C26_StaticNeverModified ==
    \A k, j \in 1..Len(lmast) :
        ModifiesStatic(lmast, k, j)
        => /\ gen.status # "ok"
           /\ StepText(lmast[j]) \notin EmittedTexts

StructuredKinds == {"declare", "assign", "print", "inc", "dec", "if", "while", "call"}

UsesGoto(ast) ==
    DOMAIN collect_labels_and_gotos(ast).labels # {}
        \/ Len(collect_labels_and_gotos(ast).gotos) > 0

\* the generator as it stands when the arms are compiled: the functions of
\* the program are registered
ArmGenerator(ast) ==
    compile_each(SelectSeq(ast, IsFun), Prepared(ast, collect_labels_and_gotos(ast))).g

\* what structured mode emits for the statement, at indentation 0
Structured(stmt, g) == CompileOne(stmt, [g EXCEPT !.indent_level = 0])

\* the lines of an arm: each is written at the indentation of the arm
ArmLines(arm) == [j \in 1..Len(arm) |-> Line(0, arm[j])]

\* C27: in goto mode every top-level statement of a kind structured mode
\* compiles is compiled without an exception, and its arm holds the lines
\* structured mode emits for it, with the indentation of nested bodies.
C27_PathsAgree ==
    (gen.status # "idle" /\ UsesGoto(lmast) /\ collect_labels_and_gotos(lmast).err = "")
    => \A k \in 1..Len(non_function_statements(lmast)) :
          LET stmt == non_function_statements(lmast)[k]
              r == Structured(stmt, ArmGenerator(lmast))
          IN (stmt.type \in StructuredKinds /\ r.err = "")
             => /\ gen.status = "ok"
                /\ ArmLines(gen.arms[k]) = r.code

\* name [ index ] = literal ;  with name a declared ary or dic variable and
\* the element value an int literal
AssignsElement ==
    /\ AtToken
    /\ TopLoop.i + 6 < Len(TopLoop.tokens)
    /\ LET name == Tok(TopLoop.tokens, TopLoop.i)
       IN /\ HasTarget(name) /\ Target(name).var_type \in {"ary", "dic"}
          /\ name \notin DOMAIN static_vars
    /\ Tok(TopLoop.tokens, TopLoop.i + 1) = "["
    /\ IntParses(Tok(TopLoop.tokens, TopLoop.i + 2))
    /\ Tok(TopLoop.tokens, TopLoop.i + 3) = "]"
    /\ Tok(TopLoop.tokens, TopLoop.i + 4) = "="
    /\ IntParses(Tok(TopLoop.tokens, TopLoop.i + 5))
    /\ Tok(TopLoop.tokens, TopLoop.i + 6) = ";"

\* C28: an indexed assignment of a scalar element to a declared ary or dic
\* variable is accepted and appends an assign statement whose target is the
\* access expression name[index].
C28_ElementAssigned ==
    [][AssignsElement
       => Accepted("assign", Tok(TopLoop.tokens, TopLoop.i) \o "["
                             \o Tok(TopLoop.tokens, TopLoop.i + 2) \o "]")]_vars

LumenKeywords == {"if", "while", "fun", "print", "return", "global", "goto", "static"}

\* return ( ... ) ;  in a scope other than 'global'
ReturnsParenthesised ==
    /\ AtToken
    /\ TopLoop.i + 1 < Len(TopLoop.tokens)
    /\ Tok(TopLoop.tokens, TopLoop.i) = "return"
    /\ Tok(TopLoop.tokens, TopLoop.i + 1) = "("
    /\ current_scope(ST) # "global"
    /\ FollowedBySemicolon(TopLoop.tokens, ValueEnd(TopLoop.tokens, TopLoop.i + 1, 0, 0))

ReturnedValue ==
    parse_value_expression(Slice(TopLoop.tokens, TopLoop.i + 1,
                                 ValueEnd(TopLoop.tokens, TopLoop.i + 1, 0, 0)))

\* C29: a call statement is appended only for a leading identifier that is
\* no keyword, followed by '('; `return ( ... );` in a function body is
\* parsed as a return statement with the parenthesised expression as value.
C29_KeywordNeverCalled ==
    [][/\ (pstate = "parsing" /\ pstate' = "parsing" /\ Len(frames') = Len(frames)
             /\ Len(frames'[Len(frames')].ast) > Len(Top.ast)
             /\ LastAppended(frames').type = "call")
          => /\ LastAppended(frames').name = Tok(TopLoop.tokens, TopLoop.i)
             /\ Tok(TopLoop.tokens, TopLoop.i + 1) = "("
             /\ isidentifier(LastAppended(frames').name)
             /\ LastAppended(frames').name \notin LumenKeywords \cup python_keywords
       /\ ReturnsParenthesised
          => /\ Accepted("return", "")
             /\ LastAppended(frames').value = ReturnedValue
      ]_vars

\* a return statement of the list that no fun statement of the list encloses
RECURSIVE ReturnOutsideFun(_)
ReturnOutsideFun(ast) ==
    \E k \in 1..Len(ast) :
        \/ ast[k].type = "return"
        \/ ast[k].type \in {"if", "while"} /\ ReturnOutsideFun(ast[k].body)

\* the loop stands at a return and no active invocation parses a fun body
ReturnsOutsideFun ==
    /\ AtToken
    /\ startswith(Tok(TopLoop.tokens, TopLoop.i), "return")
    /\ ~IsCall(TopLoop.tokens, TopLoop.i)
    /\ \A k \in 1..Len(frames) : frames[k].kind # "fun"

\* C30: a return that no function body encloses, directly at top level or in
\* the body of a top-level if or while, is refused with 'Return statement
\* outside of function'; every return of a parsed AST lies in a fun statement.
C30_ReturnInsideFun ==
    [][/\ ReturnsOutsideFun => (pstate' = "raising" /\ last'.err = ErrReturnOutside)
       /\ pstate' = "done" => ~ReturnOutsideFun(frames'[1].ast)
      ]_vars

====
